---- MODULE Spec2Model ----
(***************************************************************************)
(* Model of the property-management domain layer (src/models.py): the      *)
(* entity value objects with their derived properties, the ReportGenerator *)
(* and the DataAnalyzer.  The library is stateless; a behaviour is a       *)
(* sequence of calls made by a client, each reading the clock `today`.     *)
(*                                                                         *)
(* Conventions                                                             *)
(*   - a Python str/None field is a record [kind, y, m, d]: kind "None" is  *)
(*     None, "empty" is '', "text" is a non-date text, "ymd" is the text    *)
(*     'y-m-d' (fields not range-checked until strptime parses it);         *)
(*   - a date object is its proleptic Gregorian ordinal (date.toordinal);   *)
(*   - Optional[int] is a record [some, v];                                 *)
(*   - money amounts are exact non-negative integers and a float quotient   *)
(*     n / d * 100 is the exact rational in lowest terms [num, den];        *)
(*   - the outcome of a call is Returned(value) or Raised(exception name).  *)
(***************************************************************************)
EXTENDS Integers, Sequences, FiniteSets, TLC

VARIABLES today, call, result, store

vars == <<today, call, result, store>>

----------------------------------------------------------------------------
(* Bounds of the model *)

MaxDaysElapsed == 1

MaxLeases == 2

MaxPayments == 3

MaxProperties == 2

MaxUnits == 2

MaxUnitLeases == 2

MaxTickets == 4

MaxTenants == 2

MaxTrendPayments == 3

MaxTenancies == 4

MaxPatternTickets == 4

MaxDataLen == 3

MaxShowLast == 4

MaxTenantsAdded == 2

MaxTicketsCreated == 1

----------------------------------------------------------------------------
(* Python values *)

NoneStr == [kind |-> "None", y |-> 0, m |-> 0, d |-> 0]

EmptyStr == [kind |-> "empty", y |-> 0, m |-> 0, d |-> 0]

TextStr == [kind |-> "text", y |-> 0, m |-> 0, d |-> 0]

DateStr(y, m, d) == [kind |-> "ymd", y |-> y, m |-> m, d |-> d]

\* the text 'y-m-d 12:00:00'
StampStr(y, m, d) == [kind |-> "ymd hms", y |-> y, m |-> m, d |-> d]

\* bool(s) of an Optional[str]: None and '' are falsy
Truthy(s) == s.kind \notin {"None", "empty"}

None == [some |-> FALSE, v |-> 0]

Some(x) == [some |-> TRUE, v |-> x]

Returned(x) == [status |-> "returned", exc |-> "", value |-> x]

Raised(e) == [status |-> "raised", exc |-> e, value |-> <<>>]

\* a dict: its keys in insertion order and its values
EmptyDict == [keys |-> <<>>, val |-> <<>>]

DictGet(dict, k, default) == IF k \in DOMAIN dict.val THEN dict.val[k] ELSE default

DictPut(dict, k, x) ==
    IF k \in DOMAIN dict.val
    THEN [dict EXCEPT !.val = [@ EXCEPT ![k] = x]]
    ELSE [keys |-> Append(dict.keys, k), val |-> dict.val @@ (k :> x)]

\* a key that the mapping does not have
Absent == "<absent>"

\* data.get(field, default)
Get(data, field, default) == IF data[field] = Absent THEN default ELSE data[field]

BoundedSeq(S, n) == UNION {[1..k -> S] : k \in 0..n}

RECURSIVE GCD(_, _)
GCD(a, b) == IF b = 0 THEN a ELSE GCD(b, a % b)

\* the float 0 / 0.0 of the guarded ratios
Zero == [num |-> 0, den |-> 1]

\* a division by zero (ZeroDivisionError)
DivisionByZero == [num |-> 0, den |-> 0]

\* n / d * 100, as an exact rational in lowest terms
Percent(n, d) ==
    IF d = 0 THEN DivisionByZero
    ELSE LET g == GCD(100 * n, d)
         IN  [num |-> (100 * n) \div g, den |-> d \div g]

----------------------------------------------------------------------------
(* datetime: calendar arithmetic of the date class *)

IsLeap(y) == (y % 4 = 0) /\ ((y % 100 # 0) \/ (y % 400 = 0))

DaysInMonth(y, m) ==
    IF m = 2 THEN (IF IsLeap(y) THEN 29 ELSE 28)
    ELSE IF m \in {4, 6, 9, 11} THEN 30 ELSE 31

DaysBeforeYear(y) ==
    (y - 1) * 365 + ((y - 1) \div 4) - ((y - 1) \div 100) + ((y - 1) \div 400)

RECURSIVE DaysBeforeMonth(_, _)
DaysBeforeMonth(y, m) ==
    IF m <= 1 THEN 0 ELSE DaysBeforeMonth(y, m - 1) + DaysInMonth(y, m - 1)

ToOrdinal(y, m, d) == DaysBeforeYear(y) + DaysBeforeMonth(y, m) + d

\* datetime.strptime(s, '%Y-%m-%d') succeeds (no ValueError)
Parses(s) ==
    /\ s.kind = "ymd"
    /\ s.y \in 1..9999
    /\ s.m \in 1..12
    /\ s.d \in 1..DaysInMonth(s.y, s.m)

\* datetime.strptime(s, '%Y-%m-%d').date(), for a string that parses
ParsedDate(s) == ToOrdinal(s.y, s.m, s.d)

\* datetime.strptime(s, '%Y-%m-%d %H:%M:%S') succeeds
ParsesStamp(s) ==
    /\ s.kind = "ymd hms"
    /\ s.y \in 1..9999
    /\ s.m \in 1..12
    /\ s.d \in 1..DaysInMonth(s.y, s.m)

\* year, month and day of a date object
FromOrdinal(t) ==
    LET y == CHOOSE yy \in (t \div 366)..(t \div 365 + 1) :
                 DaysBeforeYear(yy) < t /\ t <= DaysBeforeYear(yy + 1)
        n == t - DaysBeforeYear(y)
        m == CHOOSE mm \in 1..12 :
                 /\ DaysBeforeMonth(y, mm) < n
                 /\ n <= DaysBeforeMonth(y, mm) + DaysInMonth(y, mm)
    IN  [y |-> y, m |-> m, d |-> n - DaysBeforeMonth(y, m)]

----------------------------------------------------------------------------
(* Entity value objects *)

\* a persisted lease row; extra = the mapping carries a key that is not a
\* declared field of the dataclass (for instance a joined tenant_name)
LeaseRow(id, tenant_id, unit_id, end_date, rent_amount, status, extra) ==
    [id |-> id, tenant_id |-> tenant_id, unit_id |-> unit_id,
     end_date |-> end_date, rent_amount |-> rent_amount, status |-> status,
     extra |-> extra]

PaymentRow(id, due_date, amount, paid_on, extra) ==
    [id |-> id, due_date |-> due_date, amount |-> amount, paid_on |-> paid_on,
     extra |-> extra]

PropertyRow(id, name) == [id |-> id, name |-> name]

UnitRow(id, property_id, status) ==
    [id |-> id, property_id |-> property_id, status |-> status]

TicketRow(priority, category, status, property_name, created_at) ==
    [priority |-> priority, category |-> category, status |-> status,
     property_name |-> property_name, created_at |-> created_at]

TenantRow(date_of_birth, email, phone) ==
    [date_of_birth |-> date_of_birth, email |-> email, phone |-> phone]

\* cls(**data): an unexpected keyword argument raises TypeError
from_dict(data) == IF data.extra THEN Raised("TypeError") ELSE Returned(data)

\* Lease.days_until_expiry at clock t
days_until_expiry(lease, t) ==
    IF ~Truthy(lease.end_date) THEN None
    ELSE IF Parses(lease.end_date) THEN Some(ParsedDate(lease.end_date) - t)
    ELSE None

\* default of the parameter `days` of Lease.is_expiring_soon
DefaultDays == 30

\* Lease.is_expiring_soon is declared @property: the getter is invoked with
\* self only, so `days` always takes its default
is_expiring_soon(lease, t) ==
    LET days_left == days_until_expiry(lease, t)
    IN  days_left.some /\ 0 <= days_left.v /\ days_left.v <= DefaultDays

\* the expression lease.is_expiring_soon(days): the attribute access yields
\* the bool of the getter, and calling a bool raises TypeError
is_expiring_soon_call(lease, days, t) ==
    LET attr == is_expiring_soon(lease, t)
    IN  IF attr \in BOOLEAN THEN Raised("TypeError") ELSE Returned(attr)

\* Payment.is_paid
is_paid(payment) == payment.paid_on.kind # "None"

is_overdue_not_before(payment, t) ==
    IF ~Truthy(payment.due_date) \/ is_paid(payment) THEN FALSE
    ELSE IF Parses(payment.due_date) THEN t >= ParsedDate(payment.due_date)
    ELSE FALSE

\* Payment.is_overdue at clock t
is_overdue(payment, t) ==
    IF ~Truthy(payment.due_date) \/ is_paid(payment) THEN FALSE
    ELSE IF Parses(payment.due_date) THEN t > ParsedDate(payment.due_date)
    ELSE FALSE

\* a difference computed whatever is_overdue says
days_overdue_unchecked(payment, t) ==
    IF Parses(payment.due_date) THEN Some(t - ParsedDate(payment.due_date))
    ELSE None

\* Payment.days_overdue at clock t
days_overdue(payment, t) ==
    IF ~is_overdue(payment, t) THEN None
    ELSE IF Parses(payment.due_date) THEN Some(t - ParsedDate(payment.due_date))
    ELSE None

----------------------------------------------------------------------------
(* ReportGenerator *)

RECURSIVE lease_expiry_loop(_, _, _, _, _)
lease_expiry_loop(leases, i, days_ahead, t, acc) ==
    IF i > Len(leases)
    THEN Returned([report_date |-> t,
                   period_days |-> days_ahead,
                   total_expiring |-> Len(acc.expiring_leases),
                   total_rent_at_risk |-> acc.total_rent_at_risk,
                   leases |-> acc.expiring_leases])
    ELSE LET lease == from_dict(leases[i])
         IN  IF lease.status = "raised" THEN lease
             ELSE LET cond == is_expiring_soon_call(lease.value, days_ahead, t)
                  IN  IF cond.status = "raised" THEN cond
                      ELSE IF cond.value
                      THEN lease_expiry_loop(leases, i + 1, days_ahead, t,
                             [expiring_leases |->
                                  Append(acc.expiring_leases, leases[i]),
                              total_rent_at_risk |->
                                  acc.total_rent_at_risk + lease.value.rent_amount])
                      ELSE lease_expiry_loop(leases, i + 1, days_ahead, t, acc)

generate_lease_expiry_report(leases, days_ahead, t) ==
    lease_expiry_loop(leases, 1, days_ahead, t,
                      [expiring_leases |-> <<>>, total_rent_at_risk |-> 0])

collection_rate_of_due(total_collected, total_pending, total_overdue) ==
    IF total_collected + total_pending > 0
    THEN Percent(total_collected, total_collected + total_pending)
    ELSE Zero

\* (total_collected / (collected + pending + overdue) * 100) if ... > 0 else 0
collection_rate(total_collected, total_pending, total_overdue) ==
    IF total_collected + total_pending + total_overdue > 0
    THEN Percent(total_collected, total_collected + total_pending + total_overdue)
    ELSE Zero

\* which of the three branches of the loop body a payment takes
payment_bucket_no_overdue(payment, t) ==
    IF is_paid(payment) THEN "paid" ELSE "pending"

payment_bucket(payment, t) ==
    IF is_paid(payment) THEN "paid"
    ELSE IF is_overdue(payment, t) THEN "overdue"
    ELSE "pending"

RECURSIVE payment_summary_loop(_, _, _, _)
payment_summary_loop(payments, i, t, acc) ==
    IF i > Len(payments)
    THEN Returned(
           [report_date |-> t,
            period |-> "current_month",
            summary |-> [total_collected |-> acc.total_collected,
                         total_pending |-> acc.total_pending,
                         total_overdue |-> acc.total_overdue,
                         collection_rate |->
                             collection_rate(acc.total_collected,
                                             acc.total_pending,
                                             acc.total_overdue)],
            counts |-> [paid |-> Len(acc.paid_payments),
                        pending |-> Len(acc.pending_payments),
                        overdue |-> Len(acc.overdue_payments)],
            details |-> [paid_payments |-> acc.paid_payments,
                         pending_payments |-> acc.pending_payments,
                         overdue_payments |-> acc.overdue_payments]])
    ELSE LET payment == from_dict(payments[i])
             bucket == payment_bucket(payment.value, t)
         IN  IF payment.status = "raised" THEN payment
             ELSE IF bucket = "paid"
             THEN payment_summary_loop(payments, i + 1, t,
                    [acc EXCEPT !.paid_payments = Append(@, payments[i]),
                                !.total_collected = @ + payment.value.amount])
             ELSE IF bucket = "overdue"
             THEN payment_summary_loop(payments, i + 1, t,
                    [acc EXCEPT !.overdue_payments = Append(@, payments[i]),
                                !.total_overdue = @ + payment.value.amount])
             ELSE payment_summary_loop(payments, i + 1, t,
                    [acc EXCEPT !.pending_payments = Append(@, payments[i]),
                                !.total_pending = @ + payment.value.amount])

generate_payment_summary(payments, t) ==
    payment_summary_loop(payments, 1, t,
        [paid_payments |-> <<>>, pending_payments |-> <<>>,
         overdue_payments |-> <<>>,
         total_collected |-> 0, total_pending |-> 0, total_overdue |-> 0])

\* property_units = [u for u in units if u['property_id'] == property_data['id']]
property_units(units, property_data) ==
    SelectSeq(units, LAMBDA u : u.property_id = property_data.id)

unit_leases_any_status(leases, unit) ==
    SelectSeq(leases, LAMBDA l : l.unit_id = unit.id)

\* unit_leases = [l for l in leases if l['unit_id'] == unit['id'] and l['status'] == 'active']
unit_leases(leases, unit) ==
    SelectSeq(leases, LAMBDA l : l.unit_id = unit.id /\ l.status = "active")

RECURSIVE count_occupied_per_lease(_, _)
count_occupied_per_lease(punits, leases) ==
    IF punits = <<>> THEN 0
    ELSE Len(unit_leases(leases, Head(punits)))
             + count_occupied_per_lease(Tail(punits), leases)

\* for unit in property_units: if unit_leases: occupied_units += 1
RECURSIVE count_occupied(_, _)
count_occupied(punits, leases) ==
    IF punits = <<>> THEN 0
    ELSE (IF unit_leases(leases, Head(punits)) # <<>> THEN 1 ELSE 0)
             + count_occupied(Tail(punits), leases)

occupancy_rate_unguarded(occupied, total) == Percent(occupied, total)

\* (occupied / total * 100) if total > 0 else 0
occupancy_rate(occupied, total) ==
    IF total > 0 THEN Percent(occupied, total) ELSE Zero

occupancy_record(property_data, units, leases) ==
    LET punits == property_units(units, property_data)
        occupied_units == count_occupied(punits, leases)
        total_units == Len(punits)
    IN  [property_id |-> property_data.id,
         property_name |-> property_data.name,
         total_units |-> total_units,
         occupied_units |-> occupied_units,
         vacant_units |-> total_units - occupied_units,
         occupancy_rate |-> occupancy_rate(occupied_units, total_units)]

RECURSIVE SumField(_, _)
SumField(rows, field) ==
    IF rows = <<>> THEN 0 ELSE Head(rows)[field] + SumField(Tail(rows), field)

generate_occupancy_report(properties, units, leases, t) ==
    LET occupancy_data ==
            [i \in 1..Len(properties) |->
                occupancy_record(properties[i], units, leases)]
        total_units_all == SumField(occupancy_data, "total_units")
        total_occupied_all == SumField(occupancy_data, "occupied_units")
    IN  Returned([report_date |-> t,
                  overall_occupancy_rate |->
                      occupancy_rate(total_occupied_all, total_units_all),
                  total_units |-> total_units_all,
                  total_occupied |-> total_occupied_all,
                  total_vacant |-> total_units_all - total_occupied_all,
                  properties |-> occupancy_data])

\* counts[label] = counts.get(label, 0) + 1 over the tickets, the label being
\* ticket.get(field, default)
RECURSIVE tally(_, _, _, _)
tally(tickets, field, default, counts) ==
    IF tickets = <<>> THEN counts
    ELSE LET label == Get(Head(tickets), field, default)
         IN  tally(Tail(tickets), field, default,
                   DictPut(counts, label, DictGet(counts, label, 0) + 1))

UrgentMessage(n) == [text |-> "Address {n} urgent tickets immediately", n |-> n]

StaffingMessage ==
    [text |-> "Consider additional maintenance staff for high priority tickets",
     n |-> 0]

MaintenanceMessage == [text |-> "Review preventive maintenance schedule", n |-> 0]

ticket_recommendations_two_high(priorities, categories, total) ==
    (IF DictGet(priorities, "urgent", 0) > 0
     THEN <<UrgentMessage(priorities.val["urgent"])>> ELSE <<>>)
    \o (IF DictGet(priorities, "high", 0) >= 2 THEN <<StaffingMessage>> ELSE <<>>)
    \o (IF DictGet(categories, "Maintenance", 0) * 10 > total * 6
        THEN <<MaintenanceMessage>> ELSE <<>>)

\* the three rules; count > len(tickets) * 0.6 is decided as count * 10 >
\* len * 6 (the double len * 0.6 rounds to the integer whenever 0.6 * len is one)
ticket_recommendations(priorities, categories, total) ==
    (IF DictGet(priorities, "urgent", 0) > 0
     THEN <<UrgentMessage(priorities.val["urgent"])>> ELSE <<>>)
    \o (IF DictGet(priorities, "high", 0) > 2 THEN <<StaffingMessage>> ELSE <<>>)
    \o (IF DictGet(categories, "Maintenance", 0) * 10 > total * 6
        THEN <<MaintenanceMessage>> ELSE <<>>)

generate_service_ticket_report_bare_early_return(tickets, t) ==
    IF tickets = <<>>
    THEN Returned([total_tickets |-> 0,
                   summary |-> EmptyDict,
                   recommendations |-> <<>>])
    ELSE LET priorities == tally(tickets, "priority", "normal", EmptyDict)
             categories == tally(tickets, "category", "Unknown", EmptyDict)
             statuses == tally(tickets, "status", "open", EmptyDict)
         IN  Returned([report_date |-> t,
                       total_tickets |-> Len(tickets),
                       summary |-> [by_priority |-> priorities,
                                    by_category |-> categories,
                                    by_status |-> statuses],
                       recommendations |->
                           ticket_recommendations(priorities, categories,
                                                  Len(tickets))])

generate_service_ticket_report(tickets, t) ==
    IF tickets = <<>>
    THEN Returned([report_date |-> t,
                   total_tickets |-> 0,
                   summary |-> EmptyDict,
                   recommendations |-> <<>>])
    ELSE LET priorities == tally(tickets, "priority", "normal", EmptyDict)
             categories == tally(tickets, "category", "Unknown", EmptyDict)
             statuses == tally(tickets, "status", "open", EmptyDict)
         IN  Returned([report_date |-> t,
                       total_tickets |-> Len(tickets),
                       summary |-> [by_priority |-> priorities,
                                    by_category |-> categories,
                                    by_status |-> statuses],
                       recommendations |->
                           ticket_recommendations(priorities, categories,
                                                  Len(tickets))])

----------------------------------------------------------------------------
(* Utils *)

\* Utils.calculate_age at clock t, for a str argument
\* a comparison of the months alone
calculate_age_month_only(birth_date, t) ==
    IF Parses(birth_date)
    THEN LET now == FromOrdinal(t)
         IN  Some(now.y - birth_date.y - (IF now.m < birth_date.m THEN 1 ELSE 0))
    ELSE None

calculate_age(birth_date, t) ==
    IF Parses(birth_date)
    THEN LET now == FromOrdinal(t)
             before == \/ now.m < birth_date.m
                       \/ now.m = birth_date.m /\ now.d < birth_date.d
         IN  Some(now.y - birth_date.y - (IF before THEN 1 ELSE 0))
    ELSE None

----------------------------------------------------------------------------
(* ReportGenerator: tenant demographics *)

AgeGroups == <<"18-25", "26-35", "36-45", "46-55", "55+", "Unknown">>

ContactClasses == <<"email_only", "phone_only", "both", "neither">>

\* a dict with the given keys, all 0
Zeros(keys) ==
    [keys |-> keys, val |-> [k \in {keys[i] : i \in DOMAIN keys} |-> 0]]

\* the key of age_groups that the loop body increments for a tenant
age_group(tenant, t) ==
    IF Truthy(tenant.date_of_birth)
    THEN LET age == calculate_age(tenant.date_of_birth, t)
         IN  IF age.some /\ age.v # 0
             THEN IF age.v <= 25 THEN "18-25"
                  ELSE IF age.v <= 35 THEN "26-35"
                  ELSE IF age.v <= 45 THEN "36-45"
                  ELSE IF age.v <= 55 THEN "46-55"
                  ELSE "55+"
             ELSE "Unknown"
    ELSE "Unknown"

\* the key of contact_completeness that the loop body increments
contact_class(tenant) ==
    LET has_email == Truthy(tenant.email)
        has_phone == Truthy(tenant.phone)
    IN  IF has_email /\ has_phone THEN "both"
        ELSE IF has_email THEN "email_only"
        ELSE IF has_phone THEN "phone_only"
        ELSE "neither"

\* a loop without the two branches that count 'Unknown'
RECURSIVE demographics_loop_no_unknown(_, _, _)
demographics_loop_no_unknown(tenants, t, acc) ==
    IF tenants = <<>> THEN acc
    ELSE LET g == age_group(Head(tenants), t)
             c == contact_class(Head(tenants))
         IN  demographics_loop_no_unknown(Tail(tenants), t,
                [age_groups |->
                     IF g = "Unknown" THEN acc.age_groups
                     ELSE DictPut(acc.age_groups, g, acc.age_groups.val[g] + 1),
                 contact_completeness |->
                     DictPut(acc.contact_completeness, c,
                             acc.contact_completeness.val[c] + 1)])

RECURSIVE demographics_loop(_, _, _)
demographics_loop(tenants, t, acc) ==
    IF tenants = <<>> THEN acc
    ELSE LET g == age_group(Head(tenants), t)
             c == contact_class(Head(tenants))
         IN  demographics_loop(Tail(tenants), t,
                [age_groups |-> DictPut(acc.age_groups, g, acc.age_groups.val[g] + 1),
                 contact_completeness |->
                     DictPut(acc.contact_completeness, c,
                             acc.contact_completeness.val[c] + 1)])

generate_tenant_demographics_report(tenants, t) ==
    IF tenants = <<>>
    THEN Returned([report_date |-> t,
                   total_tenants |-> 0,
                   demographics |-> EmptyDict])
    ELSE Returned([report_date |-> t,
                   total_tenants |-> Len(tenants),
                   demographics |->
                       demographics_loop(tenants, t,
                           [age_groups |-> Zeros(AgeGroups),
                            contact_completeness |-> Zeros(ContactClasses)])])

----------------------------------------------------------------------------
(* DataAnalyzer *)

\* payment_date.strftime('%Y-%m'); for the four-digit years of the model the
\* order of the keys as strings is the order of the numbers y * 100 + m
month_key(s) == s.y * 100 + s.m

RECURSIVE revenue_loop(_, _)
revenue_loop(payments, acc) ==
    IF payments = <<>> THEN acc
    ELSE LET payment == Head(payments)
         IN  IF Truthy(payment.paid_on) /\ ParsesStamp(payment.paid_on)
             THEN LET k == month_key(payment.paid_on)
                  IN  revenue_loop(Tail(payments),
                        [monthly_revenue |->
                             DictPut(acc.monthly_revenue, k,
                                 DictGet(acc.monthly_revenue, k, 0) + payment.amount),
                         monthly_counts |->
                             DictPut(acc.monthly_counts, k,
                                 DictGet(acc.monthly_counts, k, 0) + 1)])
             ELSE revenue_loop(Tail(payments), acc)

\* sorted(keys): insertion of each key into an ascending list
RECURSIVE sorted(_)
sorted(keys) ==
    IF keys = <<>> THEN <<>>
    ELSE LET rest == sorted(Tail(keys))
             k == Head(keys)
         IN  SelectSeq(rest, LAMBDA x : x < k) \o <<k>>
                 \o SelectSeq(rest, LAMBDA x : x >= k)

\* the slice seq[-n:]
last_n(seq, n) ==
    LET len == Len(seq)
        start == IF n > 0 THEN (IF len - n > 0 THEN len - n ELSE 0)
                 ELSE IF -n < len THEN -n ELSE len
    IN  SubSeq(seq, start + 1, len)

\* max(months, key=...) / min(months, key=...): the first extreme element
first_max(months, revenue) ==
    months[CHOOSE i \in DOMAIN months :
              /\ \A j \in DOMAIN months : revenue[months[j]] <= revenue[months[i]]
              /\ \A j \in 1..(i - 1) : revenue[months[j]] < revenue[months[i]]]

first_min(months, revenue) ==
    months[CHOOSE i \in DOMAIN months :
              /\ \A j \in DOMAIN months : revenue[months[j]] >= revenue[months[i]]
              /\ \A j \in 1..(i - 1) : revenue[months[j]] > revenue[months[i]]]

\* n / d for d > 0, as an exact rational in lowest terms
Quotient(n, d) ==
    LET g == GCD(n, d) IN [num |-> n \div g, den |-> d \div g]

RECURSIVE SumAt(_, _)
SumAt(keys, f) ==
    IF keys = <<>> THEN 0 ELSE f[Head(keys)] + SumAt(Tail(keys), f)

calculate_revenue_trends(payments, months) ==
    LET acc == revenue_loop(payments,
                   [monthly_revenue |-> EmptyDict, monthly_counts |-> EmptyDict])
        sorted_months == last_n(sorted(acc.monthly_revenue.keys), months)
        shown == {sorted_months[i] : i \in DOMAIN sorted_months}
    IN  Returned(
          [monthly_revenue |->
               [keys |-> sorted_months,
                val |-> [k \in shown |-> acc.monthly_revenue.val[k]]],
           monthly_counts |->
               [keys |-> sorted_months,
                val |-> [k \in shown |-> acc.monthly_counts.val[k]]],
           trend_analysis |->
               [total_months |-> Len(sorted_months),
                average_monthly_revenue |->
                    IF sorted_months # <<>>
                    THEN Quotient(SumAt(sorted_months, acc.monthly_revenue.val),
                                  Len(sorted_months))
                    ELSE Zero,
                highest_month |->
                    IF sorted_months # <<>>
                    THEN Some(first_max(sorted_months, acc.monthly_revenue.val))
                    ELSE None,
                lowest_month |->
                    IF sorted_months # <<>>
                    THEN Some(first_min(sorted_months, acc.monthly_revenue.val))
                    ELSE None]])

\* tenant_lease_counts: leases per truthy tenant_id
RECURSIVE tenant_lease_counts(_, _)
tenant_lease_counts(leases, counts) ==
    IF leases = <<>> THEN counts
    ELSE LET tenant_id == Head(leases).tenant_id
         IN  IF tenant_id # 0
             THEN tenant_lease_counts(Tail(leases),
                      DictPut(counts, tenant_id, DictGet(counts, tenant_id, 0) + 1))
             ELSE tenant_lease_counts(Tail(leases), counts)

Max(S) == CHOOSE x \in S : \A z \in S : z <= x

\* a rate over the number of leases, the unused local total_leases
analyze_tenant_retention_per_lease(leases) ==
    LET counts == tenant_lease_counts(leases, EmptyDict)
        tenants == DOMAIN counts.val
        multiple == Cardinality({k \in tenants : counts.val[k] > 1})
    IN  IF counts # EmptyDict
        THEN Returned(
               [single_lease |-> Cardinality({k \in tenants : counts.val[k] = 1}),
                multiple_leases |-> multiple,
                max_leases_per_tenant |-> Max({counts.val[k] : k \in tenants}),
                retention_rate |-> Percent(multiple, Len(leases))])
        ELSE Returned([single_lease |-> 0,
                       multiple_leases |-> 0,
                       max_leases_per_tenant |-> 0,
                       retention_rate |-> Zero])

analyze_tenant_retention(leases) ==
    LET counts == tenant_lease_counts(leases, EmptyDict)
        tenants == DOMAIN counts.val
        multiple == Cardinality({k \in tenants : counts.val[k] > 1})
    IN  IF counts # EmptyDict
        THEN Returned(
               [single_lease |-> Cardinality({k \in tenants : counts.val[k] = 1}),
                multiple_leases |-> multiple,
                max_leases_per_tenant |-> Max({counts.val[k] : k \in tenants}),
                retention_rate |-> Percent(multiple, Cardinality(tenants))])
        ELSE Returned([single_lease |-> 0,
                       multiple_leases |-> 0,
                       max_leases_per_tenant |-> 0,
                       retention_rate |-> Zero])

RECURSIVE patterns_loop(_, _)
patterns_loop(tickets, acc) ==
    IF tickets = <<>> THEN acc
    ELSE LET ticket == Head(tickets)
             category == Get(ticket, "category", "Unknown")
             property_name == Get(ticket, "property_name", "Unknown")
             issues == DictGet(acc.property_issues, property_name, EmptyDict)
             month == ticket.created_at.m
         IN  patterns_loop(Tail(tickets),
               [category_frequency |->
                    DictPut(acc.category_frequency, category,
                            DictGet(acc.category_frequency, category, 0) + 1),
                property_issues |->
                    DictPut(acc.property_issues, property_name,
                            DictPut(issues, category,
                                    DictGet(issues, category, 0) + 1)),
                seasonal_patterns |->
                    IF Truthy(ticket.created_at) /\ ParsesStamp(ticket.created_at)
                    THEN DictPut(acc.seasonal_patterns, month,
                                 DictGet(acc.seasonal_patterns, month, 0) + 1)
                    ELSE acc.seasonal_patterns])

\* max(category_freq, key=category_freq.get): the first key of largest count
most_common(category_freq) ==
    category_freq.keys[
        CHOOSE i \in DOMAIN category_freq.keys :
            LET n == category_freq.val[category_freq.keys[i]]
            IN  /\ \A j \in DOMAIN category_freq.keys :
                      category_freq.val[category_freq.keys[j]] <= n
                /\ \A j \in 1..(i - 1) :
                      category_freq.val[category_freq.keys[j]] < n]

PreventiveMessage(category) ==
    [text |-> "Focus on preventive maintenance for {most_common} issues",
     about |-> category]

ProtocolMessage(property_name) ==
    [text |-> "Review maintenance protocols for {property_name}",
     about |-> property_name]

\* a review from three categories on
RECURSIVE protocol_reviews_from_three(_, _)
protocol_reviews_from_three(names, property_issues) ==
    IF names = <<>> THEN <<>>
    ELSE (IF Len(property_issues.val[Head(names)].keys) >= 3
          THEN <<ProtocolMessage(Head(names))>> ELSE <<>>)
         \o protocol_reviews_from_three(Tail(names), property_issues)

RECURSIVE protocol_reviews(_, _)
protocol_reviews(names, property_issues) ==
    IF names = <<>> THEN <<>>
    ELSE (IF Len(property_issues.val[Head(names)].keys) > 3
          THEN <<ProtocolMessage(Head(names))>> ELSE <<>>)
         \o protocol_reviews(Tail(names), property_issues)

\* DataAnalyzer._generate_maintenance_recommendations; the threshold is
\* len(category_freq) * 0.5, half the number of distinct categories
generate_maintenance_recommendations(category_freq, property_issues) ==
    (IF category_freq # EmptyDict
     THEN LET top == most_common(category_freq)
          IN  IF category_freq.val[top] * 2 > Len(category_freq.keys)
              THEN <<PreventiveMessage(top)>> ELSE <<>>
     ELSE <<>>)
    \o protocol_reviews(property_issues.keys, property_issues)

identify_maintenance_patterns(tickets) ==
    LET acc == patterns_loop(tickets,
                   [category_frequency |-> EmptyDict,
                    property_issues |-> EmptyDict,
                    seasonal_patterns |-> EmptyDict])
    IN  Returned([category_frequency |-> acc.category_frequency,
                  property_issues |-> acc.property_issues,
                  seasonal_patterns |-> acc.seasonal_patterns,
                  recommendations |->
                      generate_maintenance_recommendations(
                          acc.category_frequency, acc.property_issues)])

----------------------------------------------------------------------------
(* Utils: masking and business days *)

\* a str is the sequence of its characters; s * n
RECURSIVE Repeat(_, _)
Repeat(s, n) == IF n <= 0 THEN <<>> ELSE s \o Repeat(s, n - 1)

mask_sensitive_data(data, mask_char, show_last) ==
    IF data = <<>> \/ Len(data) <= show_last
    THEN data
    ELSE LET visible_part == last_n(data, show_last)
             masked_part == Repeat(mask_char, Len(data) - show_last)
         IN  masked_part \o visible_part

\* s.lstrip(chars), s.rstrip(chars) and s.strip(chars)
RECURSIVE lstrip(_, _)
lstrip(s, chars) ==
    IF s # <<>> /\ Head(s) \in chars THEN lstrip(Tail(s), chars) ELSE s

RECURSIVE rstrip(_, _)
rstrip(s, chars) ==
    IF s # <<>> /\ s[Len(s)] \in chars
    THEN rstrip(SubSeq(s, 1, Len(s) - 1), chars) ELSE s

strip(s, chars) == rstrip(lstrip(s, chars), chars)

\* the character class [<>:"/\\|?*]
InvalidCharacters == {"<", ">", ":", "\"", "/", "\\", "|", "?", "*"}

\* the limit of the length of a sanitized name
MaxFilenameLength == 200

sanitize_filename(filename) ==
    LET replaced == [i \in DOMAIN filename |->
                        IF filename[i] \in InvalidCharacters THEN "_"
                        ELSE filename[i]]
        sanitized == strip(replaced, {" ", "."})
    IN  IF Len(sanitized) > MaxFilenameLength
        THEN SubSeq(sanitized, 1, MaxFilenameLength)
        ELSE sanitized

\* date.weekday(): Monday = 0, Sunday = 6
weekday(t) == (t + 6) % 7

\* the import line of the module binds datetime and date, not timedelta
timedelta_imported == FALSE

\* the while loop of calculate_business_days; evaluating the unbound name
\* timedelta in its last statement raises NameError
RECURSIVE business_days_loop(_, _, _)
business_days_loop(current_date, end, business_days) ==
    IF current_date <= end
    THEN LET counted == business_days + (IF weekday(current_date) < 5 THEN 1 ELSE 0)
         IN  IF timedelta_imported
             THEN business_days_loop(current_date + 1, end, counted)
             ELSE Raised("NameError")
    ELSE Returned(Some(business_days))

\* only ValueError is caught
calculate_business_days(start_date, end_date) ==
    IF Parses(start_date) /\ Parses(end_date)
    THEN business_days_loop(ParsedDate(start_date), ParsedDate(end_date), 0)
    ELSE Returned(None)

----------------------------------------------------------------------------
(* DataValidator *)

\* an argument of any type: None, an int, a str (the sequence of its
\* characters) or a list
NoneValue == [type |-> "NoneType", s |-> <<>>, n |-> 0]

IntValue(n) == [type |-> "int", s |-> <<>>, n |-> n]

StrValue(s) == [type |-> "str", s |-> s, n |-> 0]

ListValue == [type |-> "list", s |-> <<>>, n |-> 0]

\* an int in the place of a date string
IntForDate == [kind |-> "int", y |-> 0, m |-> 0, d |-> 0]

Digits == {"0", "1", "2", "3", "4", "5", "6", "7", "8", "9"}

\* the letters that occur in the arguments
Letters == {"a", "b", "c", "d", "k", "m", "o", "u", "x", "A", "Z"}

\* the whitespace that occurs in the arguments
Whitespace == {" "}

AllIn(s, chars) == \A i \in DOMAIN s : s[i] \in chars

\* re.match of ^[a-zA-Z0-9._%+-]+@[a-zA-Z0-9.-]+\.[a-zA-Z]{2,}$ on a str;
\* re.match raises TypeError for an argument that is no str
validate_email(email) ==
    IF email.type # "str" THEN Raised("TypeError")
    ELSE LET s == email.s
         IN  Returned(
               \E i \in DOMAIN s, j \in DOMAIN s :
                   /\ 1 < i /\ i + 1 < j /\ j + 2 <= Len(s)
                   /\ AllIn(SubSeq(s, 1, i - 1),
                            Letters \cup Digits \cup {".", "_", "%", "+", "-"})
                   /\ s[i] = "@"
                   /\ AllIn(SubSeq(s, i + 1, j - 1), Letters \cup Digits \cup {".", "-"})
                   /\ s[j] = "."
                   /\ AllIn(SubSeq(s, j + 1, Len(s)), Letters))

\* one pattern of validate_phone: prefix, a digit, a '-' if dash, and 7 or 8
\* digits
phone_pattern(s, prefix, dash) ==
    LET p == Len(prefix)
        from == IF dash THEN p + 3 ELSE p + 2
    IN  /\ Len(s) - from + 1 \in {7, 8}
        /\ SubSeq(s, 1, p) = prefix
        /\ s[p + 1] \in Digits
        /\ dash => s[p + 2] = "-"
        /\ AllIn(SubSeq(s, from, Len(s)), Digits)

validate_phone(phone) ==
    IF phone.type # "str" THEN Raised("TypeError")
    ELSE Returned(\/ phone_pattern(phone.s, <<"0", "1">>, TRUE)
                  \/ phone_pattern(phone.s, <<"0", "1">>, FALSE)
                  \/ phone_pattern(phone.s, <<"+", "6", "0", "1">>, TRUE)
                  \/ phone_pattern(phone.s, <<"+", "6", "0", "1">>, FALSE))

\* strptime raises TypeError for an argument that is no str; only
\* ValueError is caught
validate_date(date_str) ==
    IF date_str.kind \in {"None", "int"} THEN Raised("TypeError")
    ELSE Returned(Parses(date_str))

\* float(amount) >= 0 for the numerals of the arguments: an optional sign
\* and digits, surrounded by whitespace; ValueError and TypeError are caught
validate_amount(amount) ==
    IF amount.type = "int" THEN Returned(amount.n >= 0)
    ELSE IF amount.type = "str"
    THEN LET t == strip(amount.s, Whitespace)
             signed == t # <<>> /\ t[1] \in {"+", "-"}
             body == IF signed THEN Tail(t) ELSE t
         IN  Returned(/\ body # <<>>
                      /\ AllIn(body, Digits)
                      /\ (t[1] = "-" => AllIn(body, {"0"})))
    ELSE Returned(FALSE)

\* country.lower() == 'malaysia'
is_malaysia(country) == country \in {"Malaysia", "malaysia", "MALAYSIA"}

validate_postal_code(postal_code, country) ==
    IF is_malaysia(country)
    THEN IF postal_code.type # "str" THEN Raised("TypeError")
         ELSE Returned(Len(postal_code.s) = 5 /\ AllIn(postal_code.s, Digits))
    ELSE IF postal_code.type = "str"
         THEN Returned(Len(strip(postal_code.s, Whitespace)) >= 3)
         ELSE Raised("AttributeError")

validate_unit_number(unit_number) ==
    IF unit_number.type # "str" THEN Raised("AttributeError")
    ELSE LET stripped == strip(unit_number.s, Whitespace)
         IN  Returned(stripped # <<>> /\ Len(stripped) <= 20)

----------------------------------------------------------------------------
(* DatabaseManager and PropertyManager (src/main.py): the tables *)

\* NULL in a text column that holds plain text
NullText == "<NULL>"

\* a row holds the columns that an operation reads or writes; a NULL of an
\* integer column is None, of a date or time column NoneStr
TenantRecord(id, email) == [id |-> id, email |-> email]

TicketRecord(id, lease_id, assigned_to, priority) ==
    [id |-> id, lease_id |-> lease_id, assigned_to |-> assigned_to,
     status |-> "open", priority |-> priority]

PaymentRecord(id, lease_id, due_date, method, paid_on, reference_number) ==
    [id |-> id, lease_id |-> lease_id, due_date |-> due_date, method |-> method,
     paid_on |-> paid_on, reference_number |-> reference_number]

LeaseRecord(id, tenant_id, unit_id, end_date) ==
    [id |-> id, tenant_id |-> tenant_id, unit_id |-> unit_id,
     end_date |-> end_date, status |-> "active"]

\* the sample data that init_database inserts
SampleTenants ==
    <<TenantRecord(1, "alice.tan@example.com"),
      TenantRecord(2, "brian.lee@example.com"),
      TenantRecord(3, "clara.wong@example.com"),
      TenantRecord(4, "david.chong@example.com"),
      TenantRecord(5, "elaine.ng@example.com")>>

SampleProperties ==
    <<PropertyRow(1, "Sunset Apartments"), PropertyRow(2, "Ocean View Condos"),
      PropertyRow(3, "Hilltop Villas"), PropertyRow(4, "Lakewood Homes"),
      PropertyRow(5, "Riverdale Towers")>>

SampleUnits ==
    <<UnitRow(1, 1, "available"), UnitRow(2, 1, "available"),
      UnitRow(3, 2, "available"), UnitRow(4, 3, "available"),
      UnitRow(5, 5, "available")>>

SampleLeases ==
    <<LeaseRecord(1, 1, 1, DateStr(2025, 12, 31)),
      LeaseRecord(2, 2, 2, DateStr(2026, 3, 14)),
      LeaseRecord(3, 3, 3, DateStr(2026, 4, 30)),
      LeaseRecord(4, 4, 4, DateStr(2025, 7, 31)),
      LeaseRecord(5, 5, 5, DateStr(2026, 5, 31))>>

SampleAgents == 1..5

\* the sample tickets name an agent and keep the default status 'open'
SampleServiceTickets ==
    <<TicketRecord(1, 1, Some(2), "high"), TicketRecord(2, 2, Some(3), "normal"),
      TicketRecord(3, 3, None, "high"), TicketRecord(4, 4, Some(5), "low"),
      TicketRecord(5, 5, Some(4), "normal")>>

SamplePayments ==
    <<PaymentRecord(1, 1, DateStr(2025, 6, 5), "bank_transfer",
                    StampStr(2025, 6, 3), "BTX123456"),
      PaymentRecord(2, 2, DateStr(2025, 5, 20), "credit_card",
                    StampStr(2025, 5, 18), "CC987654"),
      PaymentRecord(3, 3, DateStr(2025, 5, 25), "bank_transfer", NoneStr, NullText),
      PaymentRecord(4, 4, DateStr(2025, 6, 1), "credit_card",
                    StampStr(2025, 5, 30), "CC112233"),
      PaymentRecord(5, 5, DateStr(2025, 6, 7), "bank_transfer",
                    StampStr(2025, 6, 6), "BTX778899")>>

\* the database file after init_database: the tables that operations write,
\* and whether a connection that was never closed still holds the write lock
SampleStore ==
    [tenants |-> SampleTenants,
     service_tickets |-> SampleServiceTickets,
     payments |-> SamplePayments,
     locked |-> FALSE]

Ids(rows) == {rows[i].id : i \in DOMAIN rows}

\* ORDER BY: the rows in ascending order of their keys, ties in order of id
ordered(rows, key) ==
    LET keys == sorted([i \in DOMAIN rows |-> key[i] * 100 + rows[i].id])
    IN  [i \in DOMAIN keys |->
            CHOOSE row \in {rows[j] : j \in DOMAIN rows} : row.id = keys[i] % 100]

\* the text 'YYYY-MM-DD' of a date column as a number of the same order
DateKey(s) == s.y * 10000 + s.m * 100 + s.d

----------------------------------------------------------------------------
(* DatabaseManager and PropertyManager: the operations *)

\* the outcomes of an operation that writes: each opens a connection and
\* closes it only after its commit

\* another connection holds the write lock: the statement times out
Blocked(db) == [store |-> db, outcome |-> Raised("OperationalError")]

\* a constraint fails: the exception leaves the method before conn.close(),
\* and the connection keeps its open transaction and the write lock until
\* the garbage collector closes it
Violated(db) ==
    [store |-> [db EXCEPT !.locked = TRUE], outcome |-> Raised("IntegrityError")]

Committed(db, value) == [store |-> db, outcome |-> Returned(value)]

\* DatabaseManager.__init__: init_database drops and creates the tables and
\* inserts the sample data
init_database(db) ==
    IF db.locked THEN Blocked(db)
    ELSE Committed(SampleStore, "Database initialized successfully!")

\* the row is appended without its method having checked anything
add_tenant_unchecked(db, email) ==
    LET tenant_id == Len(db.tenants) + 1
    IN  Committed([db EXCEPT !.tenants = Append(@, TenantRecord(tenant_id, email))],
                  tenant_id)

\* email is UNIQUE; id is AUTOINCREMENT and no row is ever deleted
add_tenant(db, email) ==
    IF db.locked THEN Blocked(db)
    ELSE IF \E i \in DOMAIN db.tenants : db.tenants[i].email = email
    THEN Violated(db)
    ELSE LET tenant_id == Len(db.tenants) + 1
         IN  Committed([db EXCEPT !.tenants =
                                      Append(@, TenantRecord(tenant_id, email))],
                       tenant_id)

\* lease_id and raised_by are foreign keys
create_service_ticket(db, lease_id, raised_by, priority) ==
    IF db.locked THEN Blocked(db)
    ELSE IF lease_id \notin Ids(SampleLeases) \/ raised_by \notin Ids(db.tenants)
    THEN Violated(db)
    ELSE LET ticket_id == Len(db.service_tickets) + 1
         IN  Committed([db EXCEPT !.service_tickets =
                            Append(@, TicketRecord(ticket_id, lease_id, None, priority))],
                       ticket_id)

\* assigned_to is a foreign key, checked for the rows that are updated
assign_ticket(db, ticket_id, agent_id) ==
    IF db.locked THEN Blocked(db)
    ELSE IF ticket_id \in Ids(db.service_tickets) /\ agent_id \notin SampleAgents
    THEN Violated(db)
    ELSE Committed(
           [db EXCEPT !.service_tickets =
               [i \in DOMAIN @ |->
                   IF @[i].id = ticket_id
                   THEN [@[i] EXCEPT !.assigned_to = Some(agent_id),
                                     !.status = "assigned"]
                   ELSE @[i]]],
           "None")

\* paid_on becomes the time of the call
mark_payment_paid(db, payment_id, method, reference, t) ==
    IF db.locked THEN Blocked(db)
    ELSE LET now == FromOrdinal(t)
         IN  Committed(
               [db EXCEPT !.payments =
                   [i \in DOMAIN @ |->
                       IF @[i].id = payment_id
                       THEN [@[i] EXCEPT !.paid_on = StampStr(now.y, now.m, now.d),
                                         !.method = method,
                                         !.reference_number = reference]
                       ELSE @[i]]],
               "None")

\* ORDER BY priority DESC compares the texts
PriorityOrder(priority) ==
    CASE priority = "urgent" -> 0
      [] priority = "normal" -> 1
      [] priority = "low" -> 2
      [] priority = "high" -> 3

\* WHERE st.status IN ('open', 'in_progress') ORDER BY st.priority DESC,
\* st.created_at; the joined rows exist by the foreign keys
get_open_tickets(db) ==
    LET tickets == SelectSeq(db.service_tickets,
                             LAMBDA st : st.status \in {"open", "in_progress"})
    IN  ordered(tickets, [i \in DOMAIN tickets |-> PriorityOrder(tickets[i].priority)])

\* WHERE p.paid_on IS NULL ORDER BY p.due_date
get_pending_payments(db) ==
    LET payments == SelectSeq(db.payments, LAMBDA p : p.paid_on.kind = "None")
    IN  ordered(payments, [i \in DOMAIN payments |-> DateKey(payments[i].due_date)])

\* WHERE l.status = 'active' AND l.end_date <= (now + days_ahead) as text,
\* ORDER BY l.end_date
get_expiring_leases(table, days_ahead, t) ==
    LET end_date == FromOrdinal(t + days_ahead)
        leases == SelectSeq(table,
                            LAMBDA l : /\ l.status = "active"
                                       /\ DateKey(l.end_date) <= DateKey(end_date))
    IN  ordered(leases, [i \in DOMAIN leases |-> DateKey(leases[i].end_date)])

\* SELECT u.*, CASE WHEN l.id IS NOT NULL THEN 'occupied' ELSE u.status END
\* FROM units u LEFT JOIN leases l ON u.id = l.unit_id AND l.status =
\* 'active': one row for each active lease of a unit, one row for a unit
\* without; only the number of rows and their current_status are read
RECURSIVE joined_units(_, _)
joined_units(units, leases) ==
    IF units = <<>> THEN <<>>
    ELSE LET u == Head(units)
             active == SelectSeq(leases,
                                 LAMBDA l : l.unit_id = u.id /\ l.status = "active")
         IN  (IF active = <<>>
              THEN <<[id |-> u.id, current_status |-> u.status]>>
              ELSE [i \in DOMAIN active |->
                       [id |-> u.id, current_status |-> "occupied"]])
             \o joined_units(Tail(units), leases)

get_units_by_property(units, leases, property_id) ==
    joined_units(SelectSeq(units, LAMBDA u : u.property_id = property_id), leases)

\* the loop of StreamlitPropertyApp.calculate_overall_occupancy over the rows
\* of get_all_properties, one for each property
RECURSIVE overall_occupancy_loop(_, _, _, _)
overall_occupancy_loop(properties, units, leases, acc) ==
    IF properties = <<>> THEN acc
    ELSE LET rows == get_units_by_property(units, leases, Head(properties).id)
             occupied == SelectSeq(rows, LAMBDA unit : unit.current_status = "occupied")
         IN  overall_occupancy_loop(Tail(properties), units, leases,
                 [total_units |-> acc.total_units + Len(rows),
                  occupied_units |-> acc.occupied_units + Len(occupied)])

calculate_overall_occupancy(properties, units, leases) ==
    LET acc == overall_occupancy_loop(properties, units, leases,
                                      [total_units |-> 0, occupied_units |-> 0])
    IN  IF acc.total_units > 0
        THEN Returned(Percent(acc.occupied_units, acc.total_units))
        ELSE Returned(Zero)

\* ServiceTicket.is_open
is_open(ticket) == ticket.status \in {"open", "assigned", "in_progress"}

\* Config.TICKET_STATUSES
TICKET_STATUSES == {"open", "assigned", "in_progress", "resolved", "closed"}

----------------------------------------------------------------------------
(* Inputs of the calls *)

\* the clock at the first call: 2025-03-01
FirstDay == ToOrdinal(2025, 3, 1)

EndDates ==
    {NoneStr, EmptyStr, TextStr,
     DateStr(2025, 2, 29), DateStr(2025, 13, 1),
     DateStr(2025, 2, 28), DateStr(2025, 3, 2),
     DateStr(2025, 3, 31), DateStr(2025, 4, 1)}

LookaheadDays == {0, 1, 30, 31}

LeaseInputs ==
    {LeaseRow(1, 1, 1, e, 1200, "active", FALSE) : e \in EndDates}
    \cup {LeaseRow(1, 1, 1, DateStr(2025, 3, 2), 0, "active", FALSE),
          LeaseRow(1, 1, 1, DateStr(2025, 3, 2), 1200, "active", TRUE)}

DueDates == {NoneStr, DateStr(2025, 2, 30), DateStr(2025, 3, 1), DateStr(2025, 3, 2)}

PaidOnValues == {NoneStr, DateStr(2025, 3, 1)}

PaymentInputs ==
    {PaymentRow(1, dd, a, po, FALSE) :
        dd \in DueDates, a \in {0, 50}, po \in PaidOnValues}
    \cup {PaymentRow(1, DateStr(2025, 3, 1), 50, NoneStr, TRUE)}

\* the k-th property of the table has id k
PropertyLists ==
    {[i \in 1..n |-> PropertyRow(i, "P")] : n \in 0..MaxProperties}

\* the k-th unit has id k and belongs to one of the properties
UnitLists ==
    UNION {{[i \in 1..n |-> UnitRow(i, owner[i], "available")] :
               owner \in [1..n -> 1..MaxProperties]} : n \in 0..MaxUnits}

UnitLeaseInputs ==
    {LeaseRow(1, 1, u, DateStr(2025, 3, 31), 1200, st, FALSE) :
        u \in 1..MaxUnits, st \in {"active", "expired"}}

TicketInputs ==
    {TicketRow(p, c, "open", Absent, NoneStr) :
        p \in {"normal", "high", "urgent", Absent},
        c \in {"Maintenance", "Billing"}}
    \cup {TicketRow("high", Absent, "open", Absent, NoneStr)}

\* 1 urgent, 3 high and 6 normal tickets, none of category Maintenance
ExampleTickets ==
    <<TicketRow("urgent", "Billing", "open", Absent, NoneStr)>>
    \o [i \in 1..3 |-> TicketRow("high", "Billing", "open", Absent, NoneStr)]
    \o [i \in 1..6 |-> TicketRow("normal", "Billing", "open", Absent, NoneStr)]

BirthDates ==
    {NoneStr, EmptyStr, TextStr, DateStr(1990, 2, 30),
     DateStr(2025, 1, 1), DateStr(2010, 6, 1), DateStr(2000, 3, 2),
     DateStr(1990, 4, 15), DateStr(1985, 1, 1), DateStr(1975, 1, 1),
     DateStr(1960, 1, 1)}

TenantInputs ==
    {TenantRow(b, TextStr, TextStr) : b \in BirthDates}
    \cup {TenantRow(NoneStr, e, ph) :
            e \in {NoneStr, TextStr}, ph \in {EmptyStr, TextStr}}

TrendPaymentInputs ==
    {PaymentRow(1, NoneStr, a, po, FALSE) :
        a \in {50, 100},
        po \in {StampStr(2024, 12, 15), StampStr(2025, 1, 15),
                StampStr(2025, 2, 10)}}
    \cup {PaymentRow(1, NoneStr, 50, po, FALSE) :
            po \in {NoneStr, EmptyStr, DateStr(2025, 3, 1), StampStr(2025, 2, 30)}}

MonthsArgs == {0, 1, 2, 12}

TenancyInputs ==
    {LeaseRow(1, tn, 1, DateStr(2025, 3, 31), 1200, "active", FALSE) : tn \in 0..3}

PatternTicketInputs ==
    {TicketRow("normal", c, "open", "Sunrise", StampStr(2025, 3, 1)) :
        c \in {"Maintenance", "Billing", "Emergency", "Complaints", Absent}}
    \cup {TicketRow("normal", "Maintenance", "open", Absent, StampStr(2025, 3, 1))}
    \cup {TicketRow("normal", "Maintenance", "open", "Sunrise", cr) :
            cr \in {NoneStr, TextStr}}

\* the clock at the first call of the second client: 2025-04-14
AgeFirstDay == ToOrdinal(2025, 4, 14)

AgeBirthDates ==
    {DateStr(y, m, d) :
        y \in {1990, 1991, 2000, 2024, 2025, 2026}, m \in {3, 4, 5},
        d \in {14, 15, 16}}
    \cup {EmptyStr, TextStr, DateStr(1990, 2, 30), StampStr(1990, 4, 15),
          DateStr(2000, 3, 1), DateStr(2000, 3, 2), DateStr(2000, 2, 29)}

\* 2025-06-02 is a Monday, 2025-06-07 a Saturday
BusinessDates ==
    {TextStr, DateStr(2025, 2, 30), DateStr(2025, 6, 2), DateStr(2025, 6, 6),
     DateStr(2025, 6, 7), DateStr(2025, 6, 8), DateStr(2025, 6, 9)}

Characters == {"a", "b"}

ExampleData == <<"0", "1", "2", "3", "4", "5", "6", "7", "8", "9">>

MaskChars == {<<"*">>, <<"#">>}

FilenameCharacters == {"a", " ", ".", "<", "\\"}

\* a name of n + 2 characters whose last but one character is c
LongName(n, c) == [i \in 1..n |-> "a"] \o <<c, "b">>

Filenames ==
    BoundedSeq(FilenameCharacters, MaxDataLen)
    \cup {LongName(MaxFilenameLength - 2, "a"), LongName(MaxFilenameLength - 1, "a"),
          LongName(MaxFilenameLength - 1, " "), LongName(MaxFilenameLength - 1, "."),
          LongName(MaxFilenameLength - 1, "?"),
          <<" ", ".">> \o LongName(MaxFilenameLength - 1, "a") \o <<".", " ">>}

\* arguments of the validators of every type
NotStrings == {NoneValue, IntValue(5), ListValue}

EmailInputs ==
    NotStrings
    \cup {StrValue(<<>>), StrValue(<<"a", "@", "b", ".", "c", "o">>), StrValue(<<"a", ".", "b", "@", "c", "-", "d", ".", "c", "o", "m">>),
          StrValue(<<"a", "@", "b", ".", "c">>), StrValue(<<"a", "b", ".", "c", "o">>), StrValue(<<"@", "b", ".", "c", "o">>), StrValue(<<"a", "@", ".", "c", "o">>),
          StrValue(<<"a", "@", "b", ".", "c", "0">>), StrValue(<<"a", " ", "b", "@", "c", ".", "c", "o">>)}

PhoneInputs ==
    NotStrings
    \cup {StrValue(<<>>), StrValue(<<"0", "1", "2", "-", "3", "4", "5", "6", "7", "8", "9">>), StrValue(<<"0", "1", "2", "-", "3", "4", "5", "6", "7", "8", "9", "0">>),
          StrValue(<<"0", "1", "2", "3", "4", "5", "6", "7", "8", "9">>), StrValue(<<"+", "6", "0", "1", "2", "-", "3", "4", "5", "6", "7", "8", "9">>), StrValue(<<"+", "6", "0", "1", "2", "3", "4", "5", "6", "7", "8", "9">>),
          StrValue(<<"0", "1", "2", "-", "3", "4", "5", "6", "7", "8">>), StrValue(<<"0", "2", "2", "-", "3", "4", "5", "6", "7", "8", "9">>), StrValue(<<"0", "1", "2", "-", "3", "4", "5", "6", "7", "8", "9", "0", "1">>),
          StrValue(<<"0", "1", "a", "-", "3", "4", "5", "6", "7", "8", "9">>)}

DateInputs ==
    {NoneStr, IntForDate, EmptyStr, TextStr, DateStr(2025, 2, 28),
     DateStr(2025, 2, 29), StampStr(2025, 2, 28)}

AmountInputs ==
    NotStrings
    \cup {IntValue(0), IntValue(-1), StrValue(<<>>), StrValue(<<"5">>), StrValue(<<" ", "5", "0", " ">>),
          StrValue(<<"-", "5">>), StrValue(<<"-", "0">>), StrValue(<<"+", "5">>), StrValue(<<"x">>), StrValue(<<"-">>)}

PostalCodeInputs ==
    NotStrings
    \cup {StrValue(<<>>), StrValue(<<"1", "2", "3", "4", "5">>), StrValue(<<"1", "2", "3", "4">>), StrValue(<<"1", "2", "3", "4", "5", "6">>),
          StrValue(<<"1", "2", "3", "4", "a">>), StrValue(<<" ", "a", "b", " ">>), StrValue(<<"a", "b", "c">>)}

Countries == {"Malaysia", "malaysia", "Singapore"}

UnitNumberInputs ==
    NotStrings
    \cup {StrValue(<<>>), StrValue(<<" ">>), StrValue(<<"A", "1">>), StrValue(<<" ", "A", "1", " ">>),
          StrValue([i \in 1..20 |-> "A"]), StrValue([i \in 1..21 |-> "A"])}

\* the units of the first property, with their stored status
StoredUnitLists ==
    UNION {{[i \in 1..n |-> UnitRow(i, 1, status[i])] :
               status \in [1..n -> {"available", "occupied"}]} : n \in 0..MaxUnits}

\* tables that respect the foreign keys of units and leases
StoredTables ==
    {tables \in (PropertyLists \ {<<>>}) \X StoredUnitLists
                    \X BoundedSeq(UnitLeaseInputs, MaxUnitLeases) :
        \A i \in DOMAIN tables[3] : tables[3][i].unit_id \in Ids(tables[2])}

\* the arguments of the operations of the PropertyManager
TenantEmails == {"alice.tan@example.com", "new1@example.com", "new2@example.com"}

LeaseIds == {3, 9}

TicketIds == {1, 3, 6, 9}

AgentIds == {2, 9}

PaymentIds == {3, 9}

\* the clock at the construction of the PropertyManager: 2025-07-31
StoreFirstDay == ToOrdinal(2025, 7, 31)

\* further payments for the derived properties of a single payment
OverdueInputs ==
    {PaymentRow(1, dd, 50, po, FALSE) :
        dd \in {EmptyStr, TextStr, DateStr(2025, 13, 1), DateStr(2024, 2, 29),
                DateStr(2025, 3, 3)},
        po \in {NoneStr, EmptyStr, DateStr(2025, 3, 1)}}

----------------------------------------------------------------------------
(* The client: one call at a time, each reading the clock *)

Idle == [fn |-> "none", args |-> <<>>]

Init ==
    /\ today = FirstDay
    /\ call = Idle
    /\ result = Returned(<<>>)
    /\ store = SampleStore

\* the calendar day changes between two calls
Midnight ==
    /\ call = Idle
    /\ today < FirstDay + MaxDaysElapsed
    /\ today' = today + 1
    /\ UNCHANGED <<call, result, store>>

\* the caller consumes the result
Return ==
    /\ call # Idle
    /\ call' = Idle
    /\ result' = Returned(<<>>)
    /\ UNCHANGED <<today, store>>

Invoke(fn, args, outcome) ==
    /\ call' = [fn |-> fn, args |-> args]
    /\ result' = outcome
    /\ UNCHANGED <<today, store>>

\* lease.is_expiring_soon
GetIsExpiringSoon ==
    /\ call = Idle
    /\ \E lease \in LeaseInputs :
        Invoke("Lease.is_expiring_soon", [lease |-> lease],
               Returned(is_expiring_soon(lease, today)))

\* lease.is_expiring_soon(days)
CallIsExpiringSoon ==
    /\ call = Idle
    /\ \E lease \in LeaseInputs, days \in LookaheadDays :
        Invoke("Lease.is_expiring_soon()", [lease |-> lease, days |-> days],
               is_expiring_soon_call(lease, days, today))

CallLeaseExpiryReport ==
    /\ call = Idle
    /\ \E leases \in BoundedSeq(LeaseInputs, MaxLeases), days_ahead \in LookaheadDays :
        Invoke("generate_lease_expiry_report",
               [leases |-> leases, days_ahead |-> days_ahead],
               generate_lease_expiry_report(leases, days_ahead, today))

GetIsOverdue ==
    /\ call = Idle
    /\ \E payment \in PaymentInputs \cup OverdueInputs :
        Invoke("Payment.is_overdue", [payment |-> payment],
               Returned(is_overdue(payment, today)))

CallPaymentSummary ==
    /\ call = Idle
    /\ \E payments \in BoundedSeq(PaymentInputs, MaxPayments) :
        Invoke("generate_payment_summary", [payments |-> payments],
               generate_payment_summary(payments, today))

CallOccupancyReport ==
    /\ call = Idle
    /\ \E properties \in PropertyLists, units \in UnitLists,
          leases \in BoundedSeq(UnitLeaseInputs, MaxUnitLeases) :
        Invoke("generate_occupancy_report",
               [properties |-> properties, units |-> units, leases |-> leases],
               generate_occupancy_report(properties, units, leases, today))

CallServiceTicketReport ==
    /\ call = Idle
    /\ \E tickets \in BoundedSeq(TicketInputs, MaxTickets) \cup {ExampleTickets} :
        Invoke("generate_service_ticket_report", [tickets |-> tickets],
               generate_service_ticket_report(tickets, today))

CallTenantDemographicsReport ==
    /\ call = Idle
    /\ \E tenants \in BoundedSeq(TenantInputs, MaxTenants) :
        Invoke("generate_tenant_demographics_report", [tenants |-> tenants],
               generate_tenant_demographics_report(tenants, today))

CallRevenueTrends ==
    /\ call = Idle
    /\ \E payments \in BoundedSeq(TrendPaymentInputs, MaxTrendPayments),
          months \in MonthsArgs :
        Invoke("calculate_revenue_trends",
               [payments |-> payments, months |-> months],
               calculate_revenue_trends(payments, months))

CallTenantRetention ==
    /\ call = Idle
    /\ \E leases \in BoundedSeq(TenancyInputs, MaxTenancies) :
        Invoke("analyze_tenant_retention", [leases |-> leases],
               analyze_tenant_retention(leases))

CallMaintenancePatterns ==
    /\ call = Idle
    /\ \E tickets \in BoundedSeq(PatternTicketInputs, MaxPatternTickets) :
        Invoke("identify_maintenance_patterns", [tickets |-> tickets],
               identify_maintenance_patterns(tickets))

CallCalculateAge ==
    /\ call = Idle
    /\ \E birth_date \in AgeBirthDates :
        Invoke("calculate_age", [birth_date |-> birth_date],
               Returned(calculate_age(birth_date, today)))

CallBusinessDays ==
    /\ call = Idle
    /\ \E start_date \in BusinessDates, end_date \in BusinessDates :
        Invoke("calculate_business_days",
               [start_date |-> start_date, end_date |-> end_date],
               calculate_business_days(start_date, end_date))

CallMaskSensitiveData ==
    /\ call = Idle
    /\ \E data \in BoundedSeq(Characters, MaxDataLen) \cup {ExampleData},
          mask_char \in MaskChars, show_last \in 0..MaxShowLast :
        Invoke("mask_sensitive_data",
               [data |-> data, mask_char |-> mask_char, show_last |-> show_last],
               Returned(mask_sensitive_data(data, mask_char, show_last)))

\* Lease.from_dict(row) and Payment.from_dict(row)
CallFromDict ==
    /\ call = Idle
    /\ \/ \E data \in LeaseInputs :
            Invoke("Lease.from_dict", [data |-> data], from_dict(data))
       \/ \E data \in PaymentInputs :
            Invoke("Payment.from_dict", [data |-> data], from_dict(data))

GetDaysOverdue ==
    /\ call = Idle
    /\ \E payment \in PaymentInputs \cup OverdueInputs :
        Invoke("Payment.days_overdue", [payment |-> payment],
               Returned(days_overdue(payment, today)))

CallSanitizeFilename ==
    /\ call = Idle
    /\ \E filename \in Filenames :
        Invoke("sanitize_filename", [filename |-> filename],
               Returned(sanitize_filename(filename)))

CallValidateEmail ==
    /\ call = Idle
    /\ \E email \in EmailInputs :
        Invoke("validate_email", [email |-> email],
               validate_email(email))

CallValidatePhone ==
    /\ call = Idle
    /\ \E phone \in PhoneInputs :
        Invoke("validate_phone", [phone |-> phone],
               validate_phone(phone))

CallValidateDate ==
    /\ call = Idle
    /\ \E date_str \in DateInputs :
        Invoke("validate_date", [date_str |-> date_str],
               validate_date(date_str))

CallValidateAmount ==
    /\ call = Idle
    /\ \E amount \in AmountInputs :
        Invoke("validate_amount", [amount |-> amount],
               validate_amount(amount))

CallValidatePostalCode ==
    /\ call = Idle
    /\ \E postal_code \in PostalCodeInputs, country \in Countries :
        Invoke("validate_postal_code", [postal_code |-> postal_code, country |-> country],
               validate_postal_code(postal_code, country))

CallValidateUnitNumber ==
    /\ call = Idle
    /\ \E unit_number \in UnitNumberInputs :
        Invoke("validate_unit_number", [unit_number |-> unit_number],
               validate_unit_number(unit_number))

\* the dashboard's overall occupancy over the tables of a database
CallOverallOccupancy ==
    /\ call = Idle
    /\ \E tables \in StoredTables :
        Invoke("calculate_overall_occupancy",
               [properties |-> tables[1], units |-> tables[2], leases |-> tables[3]],
               calculate_overall_occupancy(tables[1], tables[2], tables[3]))

Next ==
    \/ Midnight
    \/ Return
    \/ GetIsExpiringSoon
    \/ CallIsExpiringSoon
    \/ CallLeaseExpiryReport
    \/ GetIsOverdue
    \/ CallPaymentSummary
    \/ CallOccupancyReport
    \/ CallServiceTicketReport
    \/ CallTenantDemographicsReport
    \/ CallRevenueTrends
    \/ CallTenantRetention
    \/ CallMaintenancePatterns
    \/ CallCalculateAge
    \/ CallBusinessDays
    \/ CallMaskSensitiveData
    \/ CallFromDict
    \/ GetDaysOverdue
    \/ CallSanitizeFilename
    \/ CallValidateEmail
    \/ CallValidatePhone
    \/ CallValidateDate
    \/ CallValidateAmount
    \/ CallValidatePostalCode
    \/ CallValidateUnitNumber
    \/ CallOverallOccupancy

Spec == Init /\ [][Next]_vars

\* a second client, whose first call is on 2025-04-14
InitAge ==
    /\ today = AgeFirstDay
    /\ call = Idle
    /\ result = Returned(<<>>)
    /\ store = SampleStore

MidnightAge ==
    /\ call = Idle
    /\ today < AgeFirstDay + MaxDaysElapsed
    /\ today' = today + 1
    /\ UNCHANGED <<call, result, store>>

NextAge ==
    \/ MidnightAge
    \/ Return
    \/ CallCalculateAge

SpecAge == InitAge /\ [][NextAge]_vars

----------------------------------------------------------------------------
(* Properties: Lease.is_expiring_soon and the lease expiry report *)

\* the rule of the data model, with the lookahead d of the caller
ExpiringWithin(lease, d, t) ==
    LET days_left == days_until_expiry(lease, t)
    IN  days_left.some /\ 0 <= days_left.v /\ days_left.v <= d

RECURSIVE SumOf(_, _)
SumOf(rows, field) ==
    IF rows = <<>> THEN 0 ELSE rows[1][field] + SumOf(Tail(rows), field)

\* C1: is_expiring_soon evaluated with lookahead d is true iff
\* days_until_expiry is defined and 0 <= days_until_expiry <= d, the d of
\* the caller being the bound that is applied
C1_ExpiringSoonAppliesLookahead ==
    call.fn = "Lease.is_expiring_soon()" =>
        result = Returned(ExpiringWithin(call.args.lease, call.args.days, today))

\* C2: the lease expiry report returns normally for every list of leases,
\* with the leases expiring within days_ahead in input order, their number
\* and the sum of their rent
C2_LeaseExpiryReportFilters ==
    call.fn = "generate_lease_expiry_report" =>
        LET expiring == SelectSeq(call.args.leases,
                            LAMBDA l : ExpiringWithin(l, call.args.days_ahead, today))
        IN  /\ result.status = "returned"
            /\ result.value.leases = expiring
            /\ result.value.total_expiring = Len(expiring)
            /\ result.value.total_rent_at_risk = SumOf(expiring, "rent_amount")

----------------------------------------------------------------------------
(* Properties: Payment.is_overdue and the payment summary *)

\* C3: is_overdue is true iff due_date parses, the payment is not paid and
\* today is strictly after due_date
C3_OverdueIffUnpaidAndPastDue ==
    call.fn = "Payment.is_overdue" =>
        LET P == call.args.payment
        IN  /\ result.status = "returned"
            /\ result.value <=>
                 /\ Parses(P.due_date)
                 /\ P.paid_on = NoneStr
                 /\ today - ParsedDate(P.due_date) >= 1
            /\ P.paid_on # NoneStr => result.value = FALSE
            /\ (Parses(P.due_date) /\ ParsedDate(P.due_date) = today)
                   => result.value = FALSE

\* an unpaid payment whose due date has passed was evaluated
C3_Witness ==
    /\ call.fn = "Payment.is_overdue"
    /\ call.args.payment.paid_on = NoneStr
    /\ Parses(call.args.payment.due_date)
    /\ ParsedDate(call.args.payment.due_date) < today
    /\ result.value = TRUE

SummaryReturned ==
    call.fn = "generate_payment_summary" /\ result.status = "returned"

\* C4: the three detail lists partition the input (paid if is_paid, else
\* overdue if is_overdue, else pending), the counts add up to the number of
\* payments and the three totals to the sum of all amounts
C4_PaymentSummaryPartitions ==
    SummaryReturned =>
        LET ps == call.args.payments
            r == result.value
            Paid(p) == p.paid_on # NoneStr
            Overdue(p) == ~Paid(p) /\ Parses(p.due_date)
                              /\ ParsedDate(p.due_date) < today
        IN  /\ r.details.paid_payments = SelectSeq(ps, Paid)
            /\ r.details.overdue_payments = SelectSeq(ps, Overdue)
            /\ r.details.pending_payments =
                   SelectSeq(ps, LAMBDA p : ~Paid(p) /\ ~Overdue(p))
            /\ r.counts.paid = Len(r.details.paid_payments)
            /\ r.counts.overdue = Len(r.details.overdue_payments)
            /\ r.counts.pending = Len(r.details.pending_payments)
            /\ r.counts.paid + r.counts.pending + r.counts.overdue = Len(ps)
            /\ r.summary.total_collected = SumOf(r.details.paid_payments, "amount")
            /\ r.summary.total_overdue = SumOf(r.details.overdue_payments, "amount")
            /\ r.summary.total_pending = SumOf(r.details.pending_payments, "amount")
            /\ r.summary.total_collected + r.summary.total_pending
                   + r.summary.total_overdue = SumOf(ps, "amount")

\* a summary whose three buckets are all non-empty
C4_Witness ==
    /\ SummaryReturned
    /\ result.value.counts.paid > 0
    /\ result.value.counts.pending > 0
    /\ result.value.counts.overdue > 0

RateInRange(rate) == 0 <= rate.num /\ rate.num <= 100 * rate.den

\* C5 as stated: collection_rate lies in [0,100] and is 0 exactly when all
\* three totals are 0
C5_RateZeroIffAllTotalsZero ==
    SummaryReturned =>
        LET sm == result.value.summary
        IN  /\ RateInRange(sm.collection_rate)
            /\ sm.collection_rate = Zero <=>
                 /\ sm.total_collected = 0
                 /\ sm.total_pending = 0
                 /\ sm.total_overdue = 0

\* C5 as amended: collection_rate is collected/(collected+pending+overdue)*100
\* (0 when the denominator is 0), lies in [0,100], and is 0 exactly when
\* total_collected is 0
C5_RateZeroIffNothingCollected ==
    SummaryReturned =>
        LET sm == result.value.summary
            billed == sm.total_collected + sm.total_pending + sm.total_overdue
        IN  /\ RateInRange(sm.collection_rate)
            /\ sm.collection_rate.den > 0
            /\ sm.collection_rate.num * billed
                   = 100 * sm.total_collected * sm.collection_rate.den
            /\ billed = 0 => sm.collection_rate = Zero
            /\ sm.collection_rate = Zero <=> sm.total_collected = 0

\* nothing collected although an amount is pending and one is overdue
C5_Witness ==
    /\ SummaryReturned
    /\ result.value.summary.total_collected = 0
    /\ result.value.summary.total_pending > 0
    /\ result.value.summary.total_overdue > 0
    /\ result.value.summary.collection_rate = Zero

----------------------------------------------------------------------------
(* Properties: occupancy report *)

OccupancyReturned ==
    call.fn = "generate_occupancy_report" /\ result.status = "returned"

\* positions of the units of property p, and of those with an active lease
UnitsOf(p, units) == {k \in DOMAIN units : units[k].property_id = p.id}

OccupiedOf(p, units, leases) ==
    {k \in UnitsOf(p, units) :
        \E j \in DOMAIN leases :
            leases[j].unit_id = units[k].id /\ leases[j].status = "active"}

\* C6: a property that no unit references has occupancy_rate 0; otherwise
\* occupancy_rate = O / |U| * 100, U its units and O the number of them
\* with at least one active lease
C6_OccupancyRatePerProperty ==
    OccupancyReturned =>
        LET a == call.args
            recs == result.value.properties
        IN  /\ Len(recs) = Len(a.properties)
            /\ \A i \in DOMAIN recs :
                 LET U == UnitsOf(a.properties[i], a.units)
                     O == OccupiedOf(a.properties[i], a.units, a.leases)
                     rate == recs[i].occupancy_rate
                 IN  /\ recs[i].property_id = a.properties[i].id
                     /\ U = {} => rate = Zero
                     /\ U # {} =>
                          /\ rate.den > 0
                          /\ rate.num * Cardinality(U)
                                 = 100 * Cardinality(O) * rate.den

\* one property without units next to one whose units are partly let, one
\* of them under an expired lease only
C6_Witness ==
    /\ OccupancyReturned
    /\ \E i, j \in DOMAIN result.value.properties :
         /\ result.value.properties[i].total_units = 0
         /\ result.value.properties[i].occupancy_rate = Zero
         /\ result.value.properties[j].total_units = 2
         /\ result.value.properties[j].occupied_units = 1
    /\ \E l \in DOMAIN call.args.leases : call.args.leases[l].status = "expired"

\* C7: a unit is counted as occupied at most once, every property record has
\* 0 <= occupied_units <= total_units and occupied + vacant = total, and
\* the portfolio totals are the sums of the records with the overall rate
\* total_occupied / total_units * 100 (0 without units)
C7_OccupancyCountsAndRollUp ==
    OccupancyReturned =>
        LET r == result.value
            recs == r.properties
        IN  /\ \A i \in DOMAIN recs :
                 /\ 0 <= recs[i].occupied_units
                 /\ recs[i].occupied_units <= recs[i].total_units
                 /\ recs[i].occupied_units + recs[i].vacant_units
                        = recs[i].total_units
            /\ r.total_units = SumOf(recs, "total_units")
            /\ r.total_occupied = SumOf(recs, "occupied_units")
            /\ r.total_vacant = r.total_units - r.total_occupied
            /\ r.total_units = 0 => r.overall_occupancy_rate = Zero
            /\ r.total_units > 0 =>
                 /\ r.overall_occupancy_rate.den > 0
                 /\ r.overall_occupancy_rate.num * r.total_units
                        = 100 * r.total_occupied * r.overall_occupancy_rate.den

\* a unit referenced by two active leases is counted once
C7_Witness ==
    /\ OccupancyReturned
    /\ \E j, k \in DOMAIN call.args.leases :
         /\ j # k
         /\ call.args.leases[j].unit_id = call.args.leases[k].unit_id
         /\ call.args.leases[j].status = "active"
         /\ call.args.leases[k].status = "active"
         /\ \E u \in DOMAIN call.args.units :
              call.args.units[u].id = call.args.leases[j].unit_id
    /\ result.value.total_occupied = 1
    /\ result.value.total_units = 2

----------------------------------------------------------------------------
(* Properties: service ticket report *)

CountWhere(rows, field, label) ==
    Cardinality({i \in DOMAIN rows : rows[i][field] = label})

ExpectedRecommendations(tickets) ==
    LET urgent == CountWhere(tickets, "priority", "urgent")
        high == CountWhere(tickets, "priority", "high")
        maintenance == CountWhere(tickets, "category", "Maintenance")
    IN  (IF urgent > 0 THEN <<UrgentMessage(urgent)>> ELSE <<>>)
        \o (IF high > 2 THEN <<StaffingMessage>> ELSE <<>>)
        \o (IF 100 * maintenance > 60 * Len(tickets)
            THEN <<MaintenanceMessage>> ELSE <<>>)

\* C8: for a non-empty ticket list the recommendations are, in this order,
\* the urgent message with the urgent count iff urgent > 0, the staffing
\* message iff high > 2 and the maintenance message iff Maintenance tickets
\* are more than 60% of all; the example list yields urgent and staffing only
C8_TicketRecommendations ==
    /\ (call.fn = "generate_service_ticket_report" /\ call.args.tickets # <<>>) =>
         /\ result.status = "returned"
         /\ result.value.recommendations
                = ExpectedRecommendations(call.args.tickets)
    /\ (call.fn = "generate_service_ticket_report"
            /\ call.args.tickets = ExampleTickets) =>
         result.value.recommendations = <<UrgentMessage(1), StaffingMessage>>

\* exactly two high tickets, no staffing message; maintenance above 60%
C8_Witness ==
    /\ call.fn = "generate_service_ticket_report"
    /\ CountWhere(call.args.tickets, "priority", "high") = 2
    /\ CountWhere(call.args.tickets, "priority", "urgent") = 1
    /\ result.value.recommendations = <<UrgentMessage(1), MaintenanceMessage>>

----------------------------------------------------------------------------
(* Properties: all report and analysis functions *)

EmptyResult(fn, args, t) ==
    CASE fn = "generate_lease_expiry_report" ->
           [report_date |-> t, period_days |-> args.days_ahead,
            total_expiring |-> 0, total_rent_at_risk |-> 0, leases |-> <<>>]
      [] fn = "generate_payment_summary" ->
           [report_date |-> t, period |-> "current_month",
            summary |-> [total_collected |-> 0, total_pending |-> 0,
                         total_overdue |-> 0, collection_rate |-> Zero],
            counts |-> [paid |-> 0, pending |-> 0, overdue |-> 0],
            details |-> [paid_payments |-> <<>>, pending_payments |-> <<>>,
                         overdue_payments |-> <<>>]]
      [] fn = "generate_occupancy_report" ->
           [report_date |-> t, overall_occupancy_rate |-> Zero,
            total_units |-> 0, total_occupied |-> 0, total_vacant |-> 0,
            properties |-> <<>>]
      [] fn = "generate_service_ticket_report" ->
           [report_date |-> t, total_tickets |-> 0, summary |-> EmptyDict,
            recommendations |-> <<>>]
      [] fn = "generate_tenant_demographics_report" ->
           [report_date |-> t, total_tenants |-> 0, demographics |-> EmptyDict]
      [] fn = "calculate_revenue_trends" ->
           [monthly_revenue |-> EmptyDict, monthly_counts |-> EmptyDict,
            trend_analysis |-> [total_months |-> 0,
                                average_monthly_revenue |-> Zero,
                                highest_month |-> None,
                                lowest_month |-> None]]
      [] fn = "analyze_tenant_retention" ->
           [single_lease |-> 0, multiple_leases |-> 0,
            max_leases_per_tenant |-> 0, retention_rate |-> Zero]
      [] fn = "identify_maintenance_patterns" ->
           [category_frequency |-> EmptyDict, property_issues |-> EmptyDict,
            seasonal_patterns |-> EmptyDict, recommendations |-> <<>>]

ReportFunctions ==
    {"generate_lease_expiry_report", "generate_payment_summary",
     "generate_occupancy_report", "generate_service_ticket_report",
     "generate_tenant_demographics_report"}

AnalysisFunctions ==
    {"calculate_revenue_trends", "analyze_tenant_retention",
     "identify_maintenance_patterns"}

\* the collections that the call in progress was given
InputCollections ==
    {call.args[k] : k \in DOMAIN call.args \ {"days_ahead", "months"}}

EmptyInputCall ==
    /\ call.fn \in ReportFunctions \cup AnalysisFunctions
    /\ InputCollections = {<<>>}

\* C9: called with empty input collections, every report and analysis
\* function returns normally with all counts and totals 0, every rate and
\* average 0 and every list and frequency map empty
C9_EmptyInputDegradesGracefully ==
    EmptyInputCall =>
        result = Returned(EmptyResult(call.fn, call.args, today))

\* the occupancy report of an empty portfolio was produced
C9_Witness ==
    /\ EmptyInputCall
    /\ call.fn = "generate_occupancy_report"
    /\ result.status = "returned"
    /\ result.value.overall_occupancy_rate = Zero

----------------------------------------------------------------------------
(* Properties: the tenant demographics report and Utils.calculate_age *)

DemographicsReturned ==
    /\ call.fn = "generate_tenant_demographics_report"
    /\ result.status = "returned"
    /\ call.args.tenants # <<>>

\* C11: for a non-empty tenant list the six age_groups counts sum to the
\* number of tenants and so do the four contact_completeness counts
C11_DemographicsPartition ==
    DemographicsReturned =>
        LET demographics == result.value.demographics
            tenants == call.args.tenants
        IN  /\ demographics.age_groups.keys = AgeGroups
            /\ demographics.contact_completeness.keys = ContactClasses
            /\ SumAt(AgeGroups, demographics.age_groups.val) = Len(tenants)
            /\ SumAt(ContactClasses, demographics.contact_completeness.val)
                   = Len(tenants)

\* a tenant born 1990-04-15 with both contacts and one without birth date,
\* email and phone
C11_Witness ==
    /\ DemographicsReturned
    /\ Len(call.args.tenants) = 2
    /\ result.value.demographics.age_groups.val["26-35"] = 1
    /\ result.value.demographics.age_groups.val["Unknown"] = 1
    /\ result.value.demographics.contact_completeness.val["both"] = 1
    /\ result.value.demographics.contact_completeness.val["neither"] = 1

\* the ages of the label of a bucket
AgeRange(label, age) ==
    CASE label = "18-25" -> 18 <= age /\ age <= 25
      [] label = "26-35" -> 26 <= age /\ age <= 35
      [] label = "36-45" -> 36 <= age /\ age <= 45
      [] label = "46-55" -> 46 <= age /\ age <= 55
      [] label = "55+" -> 55 < age
      [] OTHER -> FALSE

\* C12: 'Unknown' counts exactly the tenants whose date_of_birth is missing
\* or unparsable, and every bucket with an age label counts exactly the
\* tenants with a parsable birth date whose age lies in the range of the
\* label, whatever the age, 0 and ages under 18 included
C12_BucketsFollowLabels ==
    DemographicsReturned =>
        LET counts == result.value.demographics.age_groups.val
            tenants == call.args.tenants
            known == {i \in DOMAIN tenants :
                        /\ Truthy(tenants[i].date_of_birth)
                        /\ Parses(tenants[i].date_of_birth)}
            age(i) == (LET now == FromOrdinal(today)
                           b == tenants[i].date_of_birth
                       IN  now.y - b.y
                             - (IF now.m * 100 + now.d < b.m * 100 + b.d
                                THEN 1 ELSE 0))
        IN  /\ counts["Unknown"] = Len(tenants) - Cardinality(known)
            /\ \A g \in {"18-25", "26-35", "36-45", "46-55", "55+"} :
                  counts[g] = Cardinality({i \in known : AgeRange(g, age(i))})

\* C13: for a birth date that parses, calculate_age returns the difference
\* of the years, less one exactly when (month, day) of today precedes
\* (month, day) of the birth date: 34 on 2025-04-14 and 35 on 2025-04-15 for
\* a birth on 1990-04-15; for a string that does not parse it returns None
C13_AgeInWholeYears ==
    call.fn = "calculate_age" =>
        LET b == call.args.birth_date
            now == FromOrdinal(today)
            precedes == now.m * 100 + now.d < b.m * 100 + b.d
        IN  /\ result.status = "returned"
            /\ Parses(b) =>
                 result.value = Some(now.y - b.y - (IF precedes THEN 1 ELSE 0))
            /\ ~Parses(b) => result.value = None
            /\ (b = DateStr(1990, 4, 15) /\ today = ToOrdinal(2025, 4, 14)) =>
                 result.value = Some(34)
            /\ (b = DateStr(1990, 4, 15) /\ today = ToOrdinal(2025, 4, 15)) =>
                 result.value = Some(35)

\* the birthday itself: born 1990-04-15, called on 2025-04-15
C13_Witness ==
    /\ call.fn = "calculate_age"
    /\ call.args.birth_date = DateStr(1990, 4, 15)
    /\ today = ToOrdinal(2025, 4, 15)
    /\ result = Returned(Some(35))

----------------------------------------------------------------------------
(* Properties: Utils.calculate_business_days and Utils.mask_sensitive_data *)

\* C14: for two dates that parse, start <= end, calculate_business_days
\* returns the number of dates from start to end, both included, that are a
\* Monday to a Friday, 5 for 2025-06-02 to 2025-06-06; no call raises
C14_BusinessDaysCounted ==
    call.fn = "calculate_business_days" =>
        LET start_date == call.args.start_date
            end_date == call.args.end_date
        IN  /\ result.status = "returned"
            /\ (Parses(start_date) /\ Parses(end_date)
                   /\ ParsedDate(start_date) <= ParsedDate(end_date)) =>
                 result.value =
                     Some(Cardinality({d \in ParsedDate(start_date)..ParsedDate(end_date) :
                                          d % 7 \in 1..5}))
            /\ (start_date = DateStr(2025, 6, 2) /\ end_date = DateStr(2025, 6, 6)) =>
                 result.value = Some(5)

\* C15: for every K >= 0, mask_sensitive_data returns the string unchanged
\* when its length is at most K, and otherwise a string of the same length
\* whose last K characters are those of the input and whose other characters
\* are the mask character; '0123456789' with K = 4 gives '******6789'
C15_MaskKeepsLastK ==
    call.fn = "mask_sensitive_data" =>
        LET data == call.args.data
            show_last == call.args.show_last
            masked == result.value
        IN  /\ Len(data) <= show_last => masked = data
            /\ Len(data) > show_last =>
                 /\ Len(masked) = Len(data)
                 /\ \A i \in 1..Len(data) :
                      masked[i] = IF i > Len(data) - show_last
                                  THEN data[i] ELSE call.args.mask_char[1]
            /\ (data = ExampleData /\ show_last = 4
                    /\ call.args.mask_char = <<"*">>) =>
                 masked = <<"*", "*", "*", "*", "*", "*", "6", "7", "8", "9">>

----------------------------------------------------------------------------
(* Properties: DataAnalyzer *)

\* the payments that count for a month: paid, with a paid_on that parses
CountedIn(payments, k) ==
    SelectSeq(payments,
              LAMBDA p : /\ Truthy(p.paid_on)
                         /\ ParsesStamp(p.paid_on)
                         /\ (k = 0 \/ month_key(p.paid_on) = k))

\* C16: for every months >= 0, calculate_revenue_trends reports at most
\* `months` keys, the `months` greatest of the months with a counted
\* payment; revenue and count of a reported month are sum and number of its
\* counted payments, and total_months is the number of reported keys
C16_MostRecentMonths ==
    call.fn = "calculate_revenue_trends" =>
        LET payments == call.args.payments
            months == call.args.months
            counted == CountedIn(payments, 0)
            present == {month_key(counted[i].paid_on) : i \in DOMAIN counted}
            revenue == result.value.monthly_revenue
            counts == result.value.monthly_counts
            reported == {revenue.keys[i] : i \in DOMAIN revenue.keys}
        IN  /\ result.status = "returned"
            /\ Len(revenue.keys) <= months
            /\ Len(revenue.keys) = Cardinality(reported)
            /\ reported = {k \in present :
                             Cardinality({j \in present : j > k}) < months}
            /\ counts.keys = revenue.keys
            /\ \A k \in reported :
                 /\ revenue.val[k] = SumOf(CountedIn(payments, k), "amount")
                 /\ counts.val[k] = Len(CountedIn(payments, k))
            /\ result.value.trend_analysis.total_months = Len(revenue.keys)

RetentionHolds(leases, tenants) ==
    LET held(t) == Cardinality({i \in DOMAIN leases : leases[i].tenant_id = t})
        stats == result.value
    IN  /\ result.status = "returned"
        /\ stats.single_lease + stats.multiple_leases = Cardinality(tenants)
        /\ stats.single_lease = Cardinality({t \in tenants : held(t) = 1})
        /\ stats.multiple_leases = Cardinality({t \in tenants : held(t) > 1})
        /\ stats.retention_rate =
               IF tenants = {} THEN Zero
               ELSE Percent(stats.multiple_leases, Cardinality(tenants))
        /\ RateInRange(stats.retention_rate)

\* C17 as stated: single_lease + multiple_leases is the number of distinct
\* tenant_id values of the leases, single_lease the tenants with one lease,
\* multiple_leases those with more, retention_rate the share of the latter
\* among the distinct tenant_id values in percent (0 without tenants), in
\* [0,100]
C17_RetentionPerTenantId ==
    call.fn = "analyze_tenant_retention" =>
        LET leases == call.args.leases
        IN  RetentionHolds(leases, {leases[i].tenant_id : i \in DOMAIN leases})

\* C17 as amended: the same over the distinct tenant_id values that are
\* truthy; a lease whose tenant_id is 0 (the default of the field) or
\* missing belongs to no tenant and is skipped
C17_RetentionPerTruthyTenantId ==
    call.fn = "analyze_tenant_retention" =>
        LET leases == call.args.leases
        IN  RetentionHolds(leases,
                           {leases[i].tenant_id : i \in DOMAIN leases} \ {0})

\* two leases of one tenant, one lease of another, one lease of no tenant
C17_Witness ==
    /\ call.fn = "analyze_tenant_retention"
    /\ Len(call.args.leases) = 4
    /\ \E i \in 1..4 : call.args.leases[i].tenant_id = 0
    /\ result.status = "returned"
    /\ result.value.single_lease = 1
    /\ result.value.multiple_leases = 1
    /\ result.value.retention_rate = Percent(1, 2)

PatternsCall == call.fn = "identify_maintenance_patterns"

Recommends(message) ==
    \E i \in DOMAIN result.value.recommendations :
        result.value.recommendations[i] = message

\* C18: preventive maintenance is recommended for a category if and only if
\* its count in category_frequency exceeds 50% of the sum of all counts of
\* category_frequency
C18_PreventiveIffMajority ==
    PatternsCall =>
        LET freq == result.value.category_frequency
            total == SumAt(freq.keys, freq.val)
        IN  /\ result.status = "returned"
            /\ \A c \in DOMAIN freq.val :
                 Recommends(PreventiveMessage(c)) <=> freq.val[c] * 2 > total

\* C19: a protocol review is recommended for a property if and only if its
\* tickets have more than 3 distinct categories; every ticket is counted once
\* in category_frequency and once in the category map of its property,
\* whatever its created_at; the month histogram counts the tickets whose
\* created_at parses
C19_ProtocolReviewAndCounts ==
    PatternsCall =>
        LET tickets == call.args.tickets
            cat(i) == Get(tickets[i], "category", "Unknown")
            prop(i) == Get(tickets[i], "property_name", "Unknown")
            of(n) == {i \in DOMAIN tickets : prop(i) = n}
            names == {prop(i) : i \in DOMAIN tickets}
            freq == result.value.category_frequency
            issues == result.value.property_issues
            seasonal == result.value.seasonal_patterns
        IN  /\ result.status = "returned"
            /\ DOMAIN freq.val = {cat(i) : i \in DOMAIN tickets}
            /\ \A c \in DOMAIN freq.val :
                 freq.val[c] = Cardinality({i \in DOMAIN tickets : cat(i) = c})
            /\ DOMAIN issues.val = names
            /\ \A n \in names :
                 /\ DOMAIN issues.val[n].val = {cat(i) : i \in of(n)}
                 /\ \A c \in DOMAIN issues.val[n].val :
                      issues.val[n].val[c] = Cardinality({i \in of(n) : cat(i) = c})
                 /\ Recommends(ProtocolMessage(n)) <=>
                      Cardinality({cat(i) : i \in of(n)}) > 3
            /\ \A i \in DOMAIN result.value.recommendations :
                 LET message == result.value.recommendations[i]
                 IN  message = ProtocolMessage(message.about) =>
                         message.about \in names
            /\ SumAt(seasonal.keys, seasonal.val) =
                 Cardinality({i \in DOMAIN tickets :
                                 /\ Truthy(tickets[i].created_at)
                                 /\ ParsesStamp(tickets[i].created_at)})

\* four tickets of one property in four categories, one of them with a
\* created_at that does not parse
C19_Witness ==
    /\ PatternsCall
    /\ Len(call.args.tickets) = 4
    /\ \E i \in 1..4 : call.args.tickets[i].created_at = TextStr
    /\ Len(result.value.category_frequency.keys) = 4
    /\ Recommends(ProtocolMessage("Sunrise"))
    /\ SumAt(result.value.seasonal_patterns.keys,
             result.value.seasonal_patterns.val) = 3

----------------------------------------------------------------------------
(* Properties: from_dict *)

\* C20: from_dict succeeds for every mapping, keys that are no declared
\* fields being ignored, and the payment summary does not fail on rows that
\* carry extra joined columns
C20_FromDictAcceptsAnyMapping ==
    /\ call.fn \in {"Lease.from_dict", "Payment.from_dict"} =>
         /\ result.status = "returned"
         /\ \A field \in DOMAIN call.args.data \ {"extra"} :
              result.value[field] = call.args.data[field]
    /\ call.fn = "generate_payment_summary" => result.status = "returned"

----------------------------------------------------------------------------
(* Properties: Payment.days_overdue *)

\* C22: days_overdue is today - due_date in days when the payment is unpaid,
\* its due_date parses and today is after it, and None otherwise; a defined
\* days_overdue is at least 1; it is None for a paid payment and for a
\* missing or unparsable due_date
C22_DaysOverdueWhenOverdue ==
    call.fn = "Payment.days_overdue" =>
        LET payment == call.args.payment
            overdue == /\ payment.paid_on.kind = "None"
                       /\ Parses(payment.due_date)
                       /\ today > ToOrdinal(payment.due_date.y, payment.due_date.m,
                                            payment.due_date.d)
        IN  /\ result.status = "returned"
            /\ overdue <=> is_overdue(payment, today)
            /\ result.value =
                 IF overdue
                 THEN Some(today - ToOrdinal(payment.due_date.y, payment.due_date.m,
                                             payment.due_date.d))
                 ELSE None
            /\ result.value.some => result.value.v >= 1
            /\ payment.paid_on.kind # "None" => result.value = None
            /\ ~Parses(payment.due_date) => result.value = None

\* an unpaid payment due the day before the call
C22_Witness ==
    /\ call.fn = "Payment.days_overdue"
    /\ call.args.payment.paid_on = NoneStr
    /\ ParsedDate(call.args.payment.due_date) = today - 1
    /\ result = Returned(Some(1))

----------------------------------------------------------------------------
(* Properties: Utils.sanitize_filename *)

\* C23: the sanitized name contains none of the characters < > : " / \ | ? *,
\* each being replaced by '_', neither starts nor ends with a space or a
\* dot, and has at most 200 characters
C23_SanitizedName ==
    call.fn = "sanitize_filename" =>
        LET sanitized == result.value
        IN  /\ result.status = "returned"
            /\ \A i \in DOMAIN sanitized : sanitized[i] \notin InvalidCharacters
            /\ sanitized # <<>> =>
                 /\ sanitized[1] \notin {" ", "."}
                 /\ sanitized[Len(sanitized)] \notin {" ", "."}
            /\ Len(sanitized) <= 200

----------------------------------------------------------------------------
(* Properties: DataValidator *)

ValidatorFunctions ==
    {"validate_email", "validate_phone", "validate_date", "validate_amount",
     "validate_postal_code", "validate_unit_number"}

\* C21: every call of a DataValidator function, whatever the type of its
\* argument, returns a boolean and raises no exception
C21_ValidatorsReturnBooleans ==
    call.fn \in ValidatorFunctions =>
        /\ result.status = "returned"
        /\ result.value \in BOOLEAN

----------------------------------------------------------------------------
(* The PropertyManager and its database: one operation at a time *)

InitStore ==
    /\ today = StoreFirstDay
    /\ call = Idle
    /\ result = Returned(<<>>)
    /\ store = SampleStore

MidnightStore ==
    /\ call = Idle
    /\ today < StoreFirstDay + MaxDaysElapsed
    /\ today' = today + 1
    /\ UNCHANGED <<call, result, store>>

\* an operation on the database: `done` is its outcome and the database
\* that it leaves
Perform(fn, args, done) ==
    /\ call' = [fn |-> fn, args |-> args]
    /\ result' = done.outcome
    /\ store' = done.store
    /\ UNCHANGED today

\* PropertyManager(): a new DatabaseManager on the same file
Construct ==
    /\ call = Idle
    /\ Perform("PropertyManager", <<>>, init_database(store))

\* the garbage collector closes the connection that a failed operation left
\* open: its transaction is rolled back and the lock released
Collect ==
    /\ call = Idle
    /\ store.locked
    /\ store' = [store EXCEPT !.locked = FALSE]
    /\ UNCHANGED <<today, call, result>>

AddTenant ==
    /\ call = Idle
    /\ Len(store.tenants) < Len(SampleTenants) + MaxTenantsAdded
    /\ \E email \in TenantEmails :
        Perform("add_tenant", [email |-> email], add_tenant(store, email))

CreateServiceTicket ==
    /\ call = Idle
    /\ Len(store.service_tickets) < Len(SampleServiceTickets) + MaxTicketsCreated
    /\ \E lease_id \in LeaseIds :
        Perform("create_service_ticket", [lease_id |-> lease_id],
                create_service_ticket(store, lease_id, 1, "normal"))

AssignTicket ==
    /\ call = Idle
    /\ \E ticket_id \in TicketIds, agent_id \in AgentIds :
        Perform("assign_ticket", [ticket_id |-> ticket_id, agent_id |-> agent_id],
                assign_ticket(store, ticket_id, agent_id))

MarkPaymentPaid ==
    /\ call = Idle
    /\ \E payment_id \in PaymentIds :
        Perform("mark_payment_paid", [payment_id |-> payment_id],
                mark_payment_paid(store, payment_id, "cash", "REF", today))

GetOpenTickets ==
    /\ call = Idle
    /\ Perform("get_open_tickets", <<>>, Committed(store, get_open_tickets(store)))

GetPendingPayments ==
    /\ call = Idle
    /\ Perform("get_pending_payments", <<>>,
               Committed(store, get_pending_payments(store)))

GetExpiringLeases ==
    /\ call = Idle
    /\ \E days_ahead \in {0, 30, 200} :
        Perform("get_expiring_leases", [days_ahead |-> days_ahead],
                Committed(store, get_expiring_leases(SampleLeases, days_ahead, today)))

NextStore ==
    \/ MidnightStore
    \/ Return
    \/ Construct
    \/ Collect
    \/ AddTenant
    \/ CreateServiceTicket
    \/ AssignTicket
    \/ MarkPaymentPaid
    \/ GetOpenTickets
    \/ GetPendingPayments
    \/ GetExpiringLeases

SpecStore == InitStore /\ [][NextStore]_vars

----------------------------------------------------------------------------
(* Properties: the PropertyManager and its database *)

Emails(tenants) == {tenants[i].email : i \in DOMAIN tenants}

\* C24: no two stored tenants have the same email or the same id; an
\* add_tenant with an email that is already stored fails and leaves the
\* tenants unchanged; an add_tenant that succeeds returns an id that no
\* stored tenant had and stores one more tenant, with that id and email
C24_TenantEmailUnique ==
    [][/\ \A i, j \in DOMAIN store'.tenants :
             (store'.tenants[i].email = store'.tenants[j].email
                 \/ store'.tenants[i].id = store'.tenants[j].id) => i = j
       /\ (call = Idle /\ call'.fn = "add_tenant") =>
             /\ call'.args.email \in Emails(store.tenants) =>
                  /\ result'.status = "raised"
                  /\ store'.tenants = store.tenants
             /\ result'.status = "raised" => store'.tenants = store.tenants
             /\ result'.status = "returned" =>
                  /\ result'.value \notin Ids(store.tenants)
                  /\ store'.tenants =
                       Append(store.tenants,
                              TenantRecord(result'.value, call'.args.email))]_vars

\* after one new tenant, an add_tenant with the email of a stored tenant
C24_Witness ==
    /\ call.fn = "add_tenant"
    /\ call.args.email \in Emails(store.tenants)
    /\ result = Raised("IntegrityError")
    /\ Len(store.tenants) = Len(SampleTenants) + 1

\* C25: get_open_tickets returns exactly the stored tickets for which
\* ServiceTicket.is_open holds, a ticket that assign_ticket has assigned
\* included
C25_OpenTicketsAgree ==
    call.fn = "get_open_tickets" =>
        /\ result.status = "returned"
        /\ Ids(result.value) =
             {store.service_tickets[i].id :
                 i \in {j \in DOMAIN store.service_tickets :
                           is_open(store.service_tickets[j])}}

\* C26: in every state of the database a ticket has status 'assigned' if
\* and only if its assigned_to is not NULL, and the status of every ticket
\* is one of the declared ticket statuses
C26_AssignedIffAgent ==
    \A i \in DOMAIN store.service_tickets :
        LET ticket == store.service_tickets[i]
        IN  /\ ticket.status = "assigned" <=> ticket.assigned_to.some
            /\ ticket.status \in TICKET_STATUSES

\* C27: mark_payment_paid(p, ...) raises no error; it leaves payment p paid
\* (is_paid, not is_overdue, not among the pending payments) and every other
\* row unchanged; for a p that is no payment it leaves the database
\* unchanged; and no operation of a PropertyManager makes a paid payment
\* unpaid
C27_MarkPaymentPaidFrame ==
    [][/\ (call = Idle /\ call'.fn = "mark_payment_paid") =>
             /\ result'.status = "returned"
             /\ store'.tenants = store.tenants
             /\ store'.service_tickets = store.service_tickets
             /\ DOMAIN store'.payments = DOMAIN store.payments
             /\ \A i \in DOMAIN store.payments :
                  IF store.payments[i].id = call'.args.payment_id
                  THEN /\ is_paid(store'.payments[i])
                       /\ ~is_overdue(store'.payments[i], today)
                       /\ store.payments[i].id
                              \notin Ids(get_pending_payments(store'))
                       /\ store'.payments[i].due_date = store.payments[i].due_date
                       /\ store'.payments[i].lease_id = store.payments[i].lease_id
                  ELSE store'.payments[i] = store.payments[i]
       /\ call'.fn # "PropertyManager" =>
             \A i \in DOMAIN store.payments :
                 is_paid(store.payments[i]) =>
                     /\ i \in DOMAIN store'.payments
                     /\ is_paid(store'.payments[i])]_vars

\* C28: every construction of a PropertyManager succeeds and leaves the
\* database in the state of the sample data, whatever operations came
\* before
C28_ConstructionResets ==
    call.fn = "PropertyManager" =>
        /\ result.status = "returned"
        /\ store = SampleStore

\* C29: on every state of the tables the overall rate of
\* calculate_overall_occupancy equals overall_occupancy_rate of
\* generate_occupancy_report on the same properties, units and leases
C29_OccupancyComputationsAgree ==
    call.fn = "calculate_overall_occupancy" =>
        /\ result.status = "returned"
        /\ result.value =
             generate_occupancy_report(call.args.properties, call.args.units,
                                       call.args.leases, today)
                 .value.overall_occupancy_rate

\* C30: get_expiring_leases(days_ahead) returns exactly the active leases
\* with 0 <= days_until_expiry <= days_ahead, none whose end_date is past
C30_ExpiringLeasesAgree ==
    call.fn = "get_expiring_leases" =>
        /\ result.status = "returned"
        /\ Ids(result.value) =
             {SampleLeases[i].id :
                 i \in {j \in DOMAIN SampleLeases :
                           /\ SampleLeases[j].status = "active"
                           /\ ExpiringWithin(SampleLeases[j],
                                             call.args.days_ahead, today)}}
        /\ \A i \in DOMAIN result.value :
             ParsedDate(result.value[i].end_date) >= today

====
